---- MODULE Spec2Model ----
(***************************************************************************)
(* Verification model of the multi-cloud FinOps tool server.               *)
(*                                                                         *)
(* The module holds one state machine per subsystem, each with its own     *)
(* specification over the shared variables:                                *)
(*   SpecFan   the regional fan-out helpers of clouds/aws/utils.py         *)
(*   SpecTool  the region / zone loops of the analyze_* tools              *)
(*   SpecCost  the cost aggregation of the three providers                 *)
(*   SpecReq   the request boundary of the cost operations: session or     *)
(*             credentials, time window, provider queries                  *)
(*   SpecFilter  cost_filters of clouds/aws/utils.py                       *)
(*   SpecAudit the audit operations of the three providers                 *)
(*   SpecOuterTry  the analysis tools whose body is one try block          *)
(*   SpecPages the paged GCP helpers of clouds/gcp/utils.py                *)
(*   SpecCli   the chat loop of mcp/server/fastmcp.py                      *)
(* A subsystem's actions leave the variables of the others unchanged.      *)
(***************************************************************************)
EXTENDS Integers, Sequences, FiniteSets, TLC

VARIABLES
    helper,      \* fan-out helper being run (function name in clouds/aws/utils.py)
    regions,     \* its `regions` argument
    cloud,       \* what the provider does for each list position
    idx,         \* number of loop iterations of `for region in regions` completed
    results,     \* local list `results`
    errors,      \* local list `errors`
    calls,       \* list positions whose per-region operation has been invoked, in order
    fpc,         \* "loop" while iterating, "returned" after `return results, errors`
    tool,            \* analysis tool being run (function name in clouds/*/tools.py)
    units,           \* the regions / zones / locations its loop iterates over
    tIdx,            \* number of loop iterations left behind
    recommendations, \* local dict `recommendations`: category -> list of items
    faults,          \* what the provider did in each unit visited so far
    report,          \* value handed to the caller, "pending" until then
    tpc,             \* "loop", "returned", "error" (error dict returned), "raised"
    costOp,      \* cost operation being run
    billRows,    \* billing records the provider returns for the grouped query
    dailyTotals, \* AWS: Amount of each ResultsByTime entry of the ungrouped query
    costTable,   \* the table the rows are folded into, before rounding and sorting
    costOut,     \* value handed to the caller, "pending" until then
    cpc,         \* "call" before the operation has run, "done" after it returned
    reqOp,         \* cost operation whose request is being served
    reqArgs,       \* its time_range_days, start_date_iso and end_date_iso arguments
    today,         \* the current date
    provider,      \* what the provider will do: session / credentials and query outcome
    session,       \* value of `session` / `credentials` once acquired
    window,        \* the resolved start and end, [resolved |-> FALSE] until then
    providerCalls, \* provider-facing steps made so far, in order
    reqOut,        \* value handed to the caller, "pending" until then
    rpc,           \* position in the operation
    tags,                 \* cost_filters argument
    dimensions,           \* cost_filters argument
    cost_explorer_kwargs, \* cost_filters return value, "pending" until then
    kpc,                  \* "call" before cost_filters has run, "done" after
    auditOp,       \* audit operation being run
    auditRegions,  \* its regions argument
    checkOutcomes, \* what each check's provider calls will do
    auditChecks,   \* (findings, errors) pairs of the checks run so far
    auditReport,   \* value handed to the caller, "pending" until then
    apc,           \* position in the audit operation
    pageHelper,  \* paged GCP helper being run (function name in clouds/gcp/utils.py)
    pages,       \* what the provider does for each page of the aggregated list
    request,     \* page the local `request` asks for, 0 when it is None
    fetched,     \* pages whose request.execute() has been called, in order
    pageResults, \* local list `results`
    pageErrors,  \* local list `errors`
    ppc,         \* "loop", "returned", "raised"
    last_cloud,  \* chat_state["last_cloud"]
    messages,    \* chat_state["messages"]
    prompts      \* number of inputs handed to handle_input so far

fanVars == <<helper, regions, cloud, idx, results, errors, calls, fpc>>

toolVars == <<tool, units, tIdx, recommendations, faults, report, tpc>>

costVars == <<costOp, billRows, dailyTotals, costTable, costOut, cpc>>

reqVars == <<reqOp, reqArgs, today, provider, session, window, providerCalls, reqOut, rpc>>

filterVars == <<tags, dimensions, cost_explorer_kwargs, kpc>>

auditVars == <<auditOp, auditRegions, checkOutcomes, auditChecks, auditReport, apc>>

pageVars == <<pageHelper, pages, request, fetched, pageResults, pageErrors, ppc>>

cliVars == <<last_cloud, messages, prompts>>

vars == <<fanVars, toolVars, costVars, reqVars, filterVars, auditVars, pageVars, cliVars>>

(***************************************************************************)
(* Bounds of the model.                                                    *)
(***************************************************************************)
MaxRegions == 2
MaxItems == 2

RegionNames == {"us-east-1", "us-west-2"}

SeqsUpTo(S, n) == UNION {[1..k -> S] : k \in 0..n}

RECURSIVE SumSeq(_)
SumSeq(s) == IF s = <<>> THEN 0 ELSE Head(s) + SumSeq(Tail(s))

RECURSIVE Flatten(_)
Flatten(ss) == IF ss = <<>> THEN <<>> ELSE Head(ss) \o Flatten(Tail(ss))

(***************************************************************************)
(* Provider responses.  A response keeps the fields the helpers read.      *)
(***************************************************************************)
\* describe_instances: Reservations, each with its Instances; instance ids
\* are numbered in the order the provider returns them.
Ec2Response(sizes) ==
    [r \in 1..Len(sizes) |->
        [k \in 1..sizes[r] |->
            [InstanceId |-> SumSeq(SubSeq(sizes, 1, r - 1)) + k]]]

Ec2Responses ==
    {Ec2Response(sizes) :
        sizes \in {s \in SeqsUpTo(0..MaxItems, MaxItems) : SumSeq(s) <= MaxItems}}

\* describe_volumes: Volumes
EbsResponses == {[k \in 1..n |-> [VolumeId |-> k]] : n \in 0..MaxItems}

\* describe_addresses: Addresses; an address has the key InstanceId or not
EipResponses ==
    UNION {{[k \in 1..n |-> [AllocationId |-> k, hasInstanceId |-> k \in assoc]] :
               assoc \in SUBSET (1..n)} : n \in 0..MaxItems}

Helpers == {"get_stopped_ec2", "get_unattached_ebs_volumes", "get_unassociated_eips"}

Responses(h) ==
    CASE h = "get_stopped_ec2" -> Ec2Responses
      [] h = "get_unattached_ebs_volumes" -> EbsResponses
      [] h = "get_unassociated_eips" -> EipResponses

\* The exception a call raises, by the call that raises it.
ErrorMessage(site) ==
    CASE site = "client" -> "EndpointConnectionError"
      [] site = "describe" -> "PermissionDenied"

\* What the provider does at one list position: session.client raises,
\* the describe_* call raises, or the call returns a response.
Outcomes(h) ==
    {[raises |-> site, response |-> <<>>] : site \in {"client", "describe"}}
    \cup {[raises |-> "none", response |-> resp] : resp \in Responses(h)}

(***************************************************************************)
(* The per-region bodies of the three helpers.                             *)
(***************************************************************************)
StoppedEc2Items(region, response) ==
    LET instances == Flatten(response)
    IN  [k \in 1..Len(instances) |->
            [InstanceId |-> instances[k].InstanceId, Region |-> region]]

UnattachedEbsItems(region, response) ==
    [k \in 1..Len(response) |->
        [VolumeId |-> response[k].VolumeId, Region |-> region]]

\* Mutation: the test `"InstanceId" not in address` is left out.
UnfilteredEipItems(region, response) ==
    [k \in 1..Len(response) |->
        [AllocationId |-> response[k].AllocationId, Region |-> region]]

UnassociatedEipItems(region, response) ==
    LET free == SelectSeq(response, LAMBDA a : ~a.hasInstanceId)
    IN  [k \in 1..Len(free) |->
            [AllocationId |-> free[k].AllocationId, Region |-> region]]

RegionItems(h, region, response) ==
    CASE h = "get_stopped_ec2" -> StoppedEc2Items(region, response)
      [] h = "get_unattached_ebs_volumes" -> UnattachedEbsItems(region, response)
      [] h = "get_unassociated_eips" -> UnassociatedEipItems(region, response)

\* Mutation: the entry drops the region, errors.append(str(e)).
ErrorEntryNoRegion(region, site) == ErrorMessage(site)

\* errors.append(f"{region}: {str(e)}")
ErrorEntry(region, site) == region \o ": " \o ErrorMessage(site)

\* Mutation: a region's items are put in front of the items collected so far.
PrependItems(acc, items) == items \o acc

\* results.append(...) inside the loops: the region's items go after the
\* items already collected.
AppendItems(acc, items) == acc \o items

\* The analysis tools are not running.
ToolIdle ==
    /\ tool = "none"
    /\ units = <<>>
    /\ tIdx = 0
    /\ recommendations = <<>>
    /\ faults = <<>>
    /\ report = "pending"
    /\ tpc = "idle"

\* No cost request is being served.
ReqIdle ==
    /\ reqOp = "none"
    /\ reqArgs = "none"
    /\ today = "none"
    /\ provider = "none"
    /\ session = "none"
    /\ window = [resolved |-> FALSE]
    /\ providerCalls = <<>>
    /\ reqOut = "pending"
    /\ rpc = "idle"

\* cost_filters is not running.
FilterIdle ==
    /\ tags = <<>>
    /\ dimensions = <<>>
    /\ cost_explorer_kwargs = "pending"
    /\ kpc = "idle"

\* No audit is running.
AuditIdle ==
    /\ auditOp = "none"
    /\ auditRegions = <<>>
    /\ checkOutcomes = <<>>
    /\ auditChecks = <<>>
    /\ auditReport = "pending"
    /\ apc = "idle"

\* No paged helper is running.
PagesIdle ==
    /\ pageHelper = "none"
    /\ pages = <<>>
    /\ request = 0
    /\ fetched = <<>>
    /\ pageResults = <<>>
    /\ pageErrors = <<>>
    /\ ppc = "idle"

\* The chat loop has not started.
CliIdle ==
    /\ last_cloud = ""
    /\ messages = <<>>
    /\ prompts = 0

\* No cost operation is running.
CostIdle ==
    /\ costOp = "none"
    /\ billRows = <<>>
    /\ dailyTotals = <<>>
    /\ costTable = <<>>
    /\ costOut = "pending"
    /\ cpc = "idle"

\* The fan-out helpers are not running.
FanIdle ==
    /\ helper = "none"
    /\ regions = <<>>
    /\ cloud = <<>>
    /\ idx = 0
    /\ results = <<>>
    /\ errors = <<>>
    /\ calls = <<>>
    /\ fpc = "idle"

FanInit ==
    /\ helper \in Helpers
    /\ regions \in SeqsUpTo(RegionNames, MaxRegions)
    /\ cloud \in [1..Len(regions) -> Outcomes(helper)]
    /\ idx = 0
    /\ results = <<>>
    /\ errors = <<>>
    /\ calls = <<>>
    /\ fpc = "loop"
    /\ ToolIdle
    /\ CostIdle
    /\ ReqIdle /\ FilterIdle /\ AuditIdle /\ PagesIdle /\ CliIdle

\* One iteration of `for region in regions` whose try block completes.
RegionSucceeds ==
    /\ fpc = "loop"
    /\ idx < Len(regions)
    /\ cloud[idx + 1].raises = "none"
    /\ results' = AppendItems(results,
                     RegionItems(helper, regions[idx + 1], cloud[idx + 1].response))
    /\ calls' = Append(calls, idx + 1)
    /\ idx' = idx + 1
    /\ UNCHANGED <<helper, regions, cloud, errors, fpc>>
    /\ UNCHANGED <<toolVars, costVars, reqVars, filterVars, auditVars, pageVars, cliVars>>

RegionRaisesAndStops ==
    /\ fpc = "loop"
    /\ idx < Len(regions)
    /\ cloud[idx + 1].raises # "none"
    /\ errors' = Append(errors, ErrorEntry(regions[idx + 1], cloud[idx + 1].raises))
    /\ calls' = Append(calls, idx + 1)
    /\ idx' = idx + 1
    /\ fpc' = "returned"
    /\ UNCHANGED <<helper, regions, cloud, results>>
    /\ UNCHANGED <<toolVars, costVars, reqVars, filterVars, auditVars, pageVars, cliVars>>

\* One iteration whose try block raises: `except Exception as e`.
RegionRaises ==
    /\ fpc = "loop"
    /\ idx < Len(regions)
    /\ cloud[idx + 1].raises # "none"
    /\ errors' = Append(errors, ErrorEntry(regions[idx + 1], cloud[idx + 1].raises))
    /\ calls' = Append(calls, idx + 1)
    /\ idx' = idx + 1
    /\ UNCHANGED <<helper, regions, cloud, results, fpc>>
    /\ UNCHANGED <<toolVars, costVars, reqVars, filterVars, auditVars, pageVars, cliVars>>

\* `return results, errors`
HelperReturn ==
    /\ fpc = "loop"
    /\ idx = Len(regions)
    /\ fpc' = "returned"
    /\ UNCHANGED <<helper, regions, cloud, idx, results, errors, calls>>
    /\ UNCHANGED <<toolVars, costVars, reqVars, filterVars, auditVars, pageVars, cliVars>>

FanNext == RegionSucceeds \/ RegionRaises \/ HelperReturn

SpecFan == FanInit /\ [][FanNext]_vars

(***************************************************************************)
(* Properties of the fan-out helpers.                                      *)
(***************************************************************************)
FailPositions == {p \in 1..Len(regions) : cloud[p].raises # "none"}

OkPositions == {p \in 1..Len(regions) : cloud[p].raises = "none"}

\* Concatenation, in list order from position p on, of what the provider
\* returned at the positions that did not raise.
RECURSIVE ConcatOk(_)
ConcatOk(p) ==
    IF p > Len(regions) THEN <<>>
    ELSE (IF cloud[p].raises = "none"
             THEN RegionItems(helper, regions[p], cloud[p].response)
             ELSE <<>>) \o ConcatOk(p + 1)

\* Number of findings the provider's response holds, counted on the response.
FindingCount(h, response) ==
    CASE h = "get_stopped_ec2" ->
            SumSeq([r \in 1..Len(response) |-> Len(response[r])])
      [] h = "get_unattached_ebs_volumes" -> Len(response)
      [] h = "get_unassociated_eips" ->
            Cardinality({k \in 1..Len(response) : ~response[k].hasInstanceId})

RECURSIVE TotalFindings(_)
TotalFindings(p) ==
    IF p > Len(regions) THEN 0
    ELSE (IF cloud[p].raises = "none"
             THEN FindingCount(helper, cloud[p].response) ELSE 0)
         + TotalFindings(p + 1)

\* C1: when exactly one region's operation raises, the returned errors hold
\* exactly one entry, which names the failing region, and the returned
\* results are the concatenation, in input order, of the other regions'
\* items; the failing region contributes nothing.
C1_OneFailureIsolated ==
    (fpc = "returned" /\ Cardinality(FailPositions) = 1) =>
        LET p == CHOOSE q \in FailPositions : TRUE
        IN  /\ Len(errors) = 1
            /\ errors[1] = regions[p] \o ": " \o ErrorMessage(cloud[p].raises)
            /\ results = ConcatOk(1)
            /\ Len(results) = TotalFindings(1)

C1_Witness ==
    /\ fpc = "returned"
    /\ Len(regions) = 2
    /\ cloud[2].raises = "describe"
    /\ cloud[1].raises = "none"
    /\ Len(results) = 2
    /\ Len(errors) = 1

\* C2: when every region's operation succeeds, errors is empty and results
\* is the concatenation of every region's items in the caller's region
\* order, each region's items in the provider's order.
C2_AllSucceedConcatenated ==
    (fpc = "returned" /\ FailPositions = {}) =>
        /\ errors = <<>>
        /\ results = ConcatOk(1)
        /\ \A p \in 1..Len(regions) :
              LET before == TotalFindings(1) - TotalFindings(p)
                  own == RegionItems(helper, regions[p], cloud[p].response)
              IN  SubSeq(results, before + 1, before + Len(own)) = own

C2_Witness ==
    /\ fpc = "returned"
    /\ FailPositions = {}
    /\ Len(regions) = 2
    /\ regions[1] # regions[2]
    /\ Len(results) >= 3

\* C4: every region lands in exactly one of results and errors: as many
\* error entries as regions that raised, as many items as the findings of
\* the regions that did not, nothing for a region without findings, and
\* nothing at all for an empty region list.
C4_ResultsErrorsPartition ==
    fpc = "returned" =>
        /\ Len(errors) = Cardinality(FailPositions)
        /\ Len(results) = TotalFindings(1)
        /\ Len(calls) = Len(regions)
        /\ \A k \in 1..Len(results) :
              \E p \in OkPositions : results[k].Region = regions[p]
        /\ (regions = <<>> => results = <<>> /\ errors = <<>>)
        /\ ((\A p \in OkPositions : FindingCount(helper, cloud[p].response) = 0)
               => results = <<>>)

C4_Witness ==
    /\ fpc = "returned"
    /\ Len(regions) = 2
    /\ cloud[1].raises = "none" /\ FindingCount(helper, cloud[1].response) = 0
    /\ cloud[2].raises = "client"
    /\ results = <<>>
    /\ Len(errors) = 1

\* A helper is one sequential loop whose every provider call returns or
\* raises: a step that can be taken is taken.
SpecFanFair == SpecFan /\ WF_vars(FanNext)

\* C26: within one run of a helper the per-region operation is invoked once
\* for each position of the region list, in list order, whether or not
\* earlier regions failed and never a second time, and the run ends after
\* the last region.
C26_EachRegionOnceInOrder ==
    /\ [](calls = [i \in 1..idx |-> i])
    /\ [](fpc = "returned" => calls = [i \in 1..Len(regions) |-> i])
    /\ [](fpc = "returned" => ~ENABLED FanNext)
    /\ <>(fpc = "returned")

\* A run over two regions whose first region failed.
C26_Witness ==
    /\ fpc = "returned"
    /\ Len(regions) = 2
    /\ cloud[1].raises # "none"
    /\ calls = <<1, 2>>
    /\ Len(errors) >= 1

(***************************************************************************)
(* The region / zone loops of the analyze_* tools.                         *)
(*                                                                         *)
(* A tool visits its units in order.  In a unit it may create a client,    *)
(* then runs its sections: an enumeration call and, for each resource      *)
(* returned, an append to a first list, possibly a per-resource call       *)
(* (metric lookup) and an append to a second list.  Each call site sits    *)
(* under the innermost try block the source puts it in:                    *)
(*   "item"    try inside the resource loop: go on with the next resource  *)
(*   "section" try around one section: go on with the next section         *)
(*   "unit"    try inside the unit loop: go on with the next unit          *)
(*   "outer"   try around the whole function: return the error dict        *)
(*   "none"    no try block: the exception leaves the tool                 *)
(*   "absent"  the tool makes no such call                                 *)
(* An append marked `cond` happens for the resources that meet the tool's  *)
(* finding predicate (fault.flagged).  At most one call fails per unit.    *)
(***************************************************************************)
Section(enum, before, beforeCond, call, after, afterCond) ==
    [enum |-> enum, before |-> before, beforeCond |-> beforeCond,
     call |-> call, after |-> after, afterCond |-> afterCond]

Tools ==
    {"analyze_rds_instances", "analyze_ec2_rightsizing",
     "analyze_cloudwatch_logs_cost", "analyze_aws_disks", "analyze_aws_network",
     "analyze_aws_snapshots", "analyze_aws_static_ips", "analyze_gcp_disks",
     "analyze_gcp_static_ips", "analyze_gcp_gke_clusters",
     "analyze_azure_disks", "analyze_azure_network", "analyze_azure_storage",
     "analyze_gcp_storage", "analyze_gcp_bigquery"}

\* The tools that work on one subscription or project as a whole: a single
\* unit, whose clients are created first thing inside the function's try.
WholeScopeTools ==
    {"analyze_azure_disks", "analyze_azure_network", "analyze_azure_storage",
     "analyze_gcp_storage"}

\* Where session.client(..., region_name=region) of the unit loop sits.
ClientGuard(t) ==
    CASE t = "analyze_rds_instances" -> "none"
      [] t = "analyze_ec2_rightsizing" -> "none"
      [] t = "analyze_cloudwatch_logs_cost" -> "none"
      [] t = "analyze_aws_disks" -> "unit"
      [] t = "analyze_aws_network" -> "unit"
      [] t = "analyze_aws_snapshots" -> "unit"
      [] t = "analyze_aws_static_ips" -> "unit"
      [] t \in WholeScopeTools -> "outer"
      [] OTHER -> "absent"

Sections(t) ==
    CASE t = "analyze_rds_instances" ->
            <<Section("unit", "available_instances", FALSE,
                      "none", "underutilized_instances", FALSE)>>
      [] t = "analyze_ec2_rightsizing" ->
            <<Section("none", "", FALSE, "none", "underutilized_instances", FALSE)>>
      [] t = "analyze_cloudwatch_logs_cost" ->
            <<Section("none", "long_retention_periods", TRUE,
                      "item", "high_volume_logs", TRUE)>>
      [] t = "analyze_aws_disks" ->
            <<Section("unit", "available_volumes", FALSE,
                      "unit", "idle_volumes", TRUE)>>
      [] t = "analyze_aws_network" ->
            <<Section("unit", "available_resources.eips", FALSE,
                      "absent", "unused_eips", TRUE),
              Section("unit", "available_resources.load_balancers", FALSE,
                      "unit", "idle_load_balancers", TRUE),
              Section("unit", "available_resources.nat_gateways", FALSE,
                      "unit", "expensive_nat_gateways", TRUE),
              Section("unit", "available_resources.security_groups", FALSE,
                      "absent", "unused_security_groups", TRUE)>>
      [] t = "analyze_aws_snapshots" ->
            <<Section("unit", "available_snapshots", FALSE,
                      "absent", "old_ebs_snapshots", TRUE),
              Section("section", "available_snapshots", FALSE,
                      "absent", "old_rds_snapshots", TRUE)>>
      [] t = "analyze_aws_static_ips" ->
            <<Section("unit", "available_ips", FALSE,
                      "absent", "unused_elastic_ips", TRUE)>>
      [] t = "analyze_gcp_disks" ->
            <<Section("outer", "available_disks", FALSE,
                      "item", "idle_disks", TRUE)>>
      [] t = "analyze_gcp_static_ips" ->
            <<Section("unit", "available_ips", FALSE,
                      "absent", "unused_static_ips", TRUE)>>
      [] t = "analyze_gcp_gke_clusters" ->
            <<Section("unit", "available_clusters", FALSE,
                      "item", "underutilized_clusters", TRUE)>>
      [] t = "analyze_azure_disks" ->
            <<Section("outer", "available_disks", FALSE,
                      "item", "idle_disks", TRUE),
              Section("section", "", FALSE, "absent", "iam_optimization", TRUE)>>
      [] t = "analyze_azure_network" ->
            <<Section("outer", "available_resources.public_ips", FALSE,
                      "absent", "unused_public_ips", TRUE),
              Section("outer", "available_resources.load_balancers", FALSE,
                      "outer", "idle_load_balancers", TRUE),
              Section("outer", "available_resources.nat_gateways", FALSE,
                      "outer", "expensive_nat_gateways", TRUE),
              Section("outer", "available_resources.nsgs", FALSE,
                      "absent", "unused_nsgs", TRUE)>>
      [] t = "analyze_azure_storage" ->
            <<Section("outer", "available_storage_accounts", FALSE,
                      "outer", "unused_storage_accounts", TRUE)>>
      [] t = "analyze_gcp_storage" ->
            <<Section("outer", "available_buckets", FALSE,
                      "item", "unused_buckets", TRUE)>>
      [] t = "analyze_gcp_bigquery" ->
            <<Section("outer", "", FALSE, "item", "available_tables", FALSE)>>

\* The keys the tool creates `recommendations` with.
Categories(t) ==
    CASE t = "analyze_rds_instances" ->
            {"underutilized_instances", "downsize_opportunities", "ri_coverage",
             "multi_az_opportunities", "storage_optimization", "available_instances"}
      [] t = "analyze_ec2_rightsizing" ->
            {"underutilized_instances", "downsize_opportunities",
             "instance_family_changes", "burstable_optimization"}
      [] t = "analyze_cloudwatch_logs_cost" ->
            {"high_volume_logs", "long_retention_periods", "unused_log_groups",
             "expensive_patterns", "consolidation_opportunities"}
      [] t = "analyze_aws_disks" ->
            {"unattached_volumes", "idle_volumes", "expensive_volume_types",
             "iam_optimization", "available_volumes"}
      [] t = "analyze_aws_network" ->
            {"unused_eips", "idle_load_balancers", "expensive_nat_gateways",
             "unused_security_groups", "available_resources.eips",
             "available_resources.load_balancers",
             "available_resources.nat_gateways",
             "available_resources.security_groups"}
      [] t = "analyze_aws_snapshots" ->
            {"old_ebs_snapshots", "unused_ebs_snapshots", "large_ebs_snapshots",
             "old_rds_snapshots", "unused_rds_snapshots", "available_snapshots"}
      [] t = "analyze_aws_static_ips" ->
            {"unused_elastic_ips", "expensive_elastic_ips", "available_ips"}
      [] t = "analyze_gcp_disks" ->
            {"unattached_disks", "idle_disks", "expensive_disk_types",
             "iam_optimization", "available_disks"}
      [] t = "analyze_gcp_static_ips" ->
            {"unused_static_ips", "expensive_regional_ips",
             "unattached_global_ips", "available_ips"}
      [] t = "analyze_gcp_gke_clusters" ->
            {"underutilized_clusters", "expensive_node_pools", "unused_clusters",
             "iam_optimization", "available_clusters"}
      [] t = "analyze_azure_disks" ->
            {"unattached_disks", "idle_disks", "expensive_disk_types",
             "iam_optimization", "available_disks"}
      [] t = "analyze_azure_network" ->
            {"unused_public_ips", "idle_load_balancers", "expensive_nat_gateways",
             "unused_nsgs", "available_resources.public_ips",
             "available_resources.load_balancers",
             "available_resources.nat_gateways", "available_resources.nsgs"}
      [] t = "analyze_azure_storage" ->
            {"lifecycle_policy_recommendations", "storage_tier_optimization",
             "unused_storage_accounts", "large_containers",
             "versioning_optimization", "available_storage_accounts"}
      [] t = "analyze_gcp_storage" ->
            {"lifecycle_policy_recommendations", "storage_class_optimization",
             "unused_buckets", "large_objects", "versioning_optimization",
             "iam_optimization", "available_buckets"}
      [] t = "analyze_gcp_bigquery" ->
            {"large_tables", "unused_tables", "long_retention_tables",
             "available_tables"}

GcpLocations == {"us-central1", "europe-west1"}

\* The datasets analyze_gcp_bigquery loops over.
Datasets == {"billing", "logs"}

UnitNames(t) ==
    IF t \in {"analyze_gcp_disks", "analyze_gcp_static_ips", "analyze_gcp_gke_clusters"}
    THEN GcpLocations
    ELSE IF t = "analyze_gcp_bigquery" THEN Datasets
    ELSE IF t \in WholeScopeTools THEN {"-"}
    ELSE RegionNames

\* analyze_gcp_gke_clusters starts its location list with "-".
UnitLists(t) ==
    IF t = "analyze_gcp_gke_clusters"
    THEN {<<"-">> \o l : l \in SeqsUpTo(UnitNames(t), MaxRegions - 1)}
    ELSE IF t \in WholeScopeTools THEN {<<"-">>}
    ELSE SeqsUpTo(UnitNames(t), MaxRegions)

\* What the provider does in one unit: every enumeration returns n
\* resources, which meet the finding predicate or not, and one call fails
\* (at "client", at the "enum" call of a section, or at the per-resource
\* "call" of resource k of a section) or none does.
FaultSites(t, n) ==
    {[at |-> "none", section |-> 0, k |-> 0]}
    \cup (IF ClientGuard(t) = "absent" THEN {}
          ELSE {[at |-> "client", section |-> 0, k |-> 0]})
    \cup {[at |-> "enum", section |-> sec, k |-> 0] : sec \in 1..Len(Sections(t))}
    \cup {[at |-> "call", section |-> sec, k |-> k] :
            sec \in {x \in 1..Len(Sections(t)) : Sections(t)[x].call # "absent"},
            k \in 1..n}

Faults(t) ==
    UNION {{[n |-> n, flagged |-> fl, fail |-> f] :
               fl \in BOOLEAN, f \in FaultSites(t, n)} : n \in 0..MaxItems}

\* recommendations[category].append(item)
AddItem(recs, category, item) ==
    IF category = "" THEN recs
    ELSE [recs EXCEPT ![category] = Append(@, item)]

HandlerWithoutOuterTry(guard) ==
    CASE guard = "item" -> "next_item"
      [] guard = "section" -> "next_section"
      [] guard = "unit" -> "next_unit"
      [] OTHER -> "raise"

\* Where control goes when the call site under `guard` raises.
Handler(guard) ==
    CASE guard = "item" -> "next_item"
      [] guard = "section" -> "next_section"
      [] guard = "unit" -> "next_unit"
      [] guard = "outer" -> "error"
      [] guard = "none" -> "raise"

\* The body of one loop iteration from section sec, resource k on.
\* Result: the recommendations it leaves and how it ends: "next_unit",
\* "error" (caught by the function's own try) or "raise".
RECURSIVE RunUnit(_, _, _, _, _, _)
RunUnit(recs, t, p, fault, sec, k) ==
    IF sec > Len(Sections(t)) THEN [recs |-> recs, exit |-> "next_unit"]
    ELSE
    LET shape == Sections(t)[sec]
        item == [unit |-> p, region |-> units[p], section |-> sec, id |-> k]
        failsHere(at, kk) ==
            fault.fail.at = at /\ fault.fail.section = sec /\ fault.fail.k = kk
        leave(guard, r) ==
            LET h == Handler(guard)
            IN  CASE h = "next_item" -> RunUnit(r, t, p, fault, sec, k + 1)
                  [] h = "next_section" -> RunUnit(r, t, p, fault, sec + 1, 0)
                  [] OTHER -> [recs |-> r, exit |-> h]
    IN  IF k = 0
        THEN \* the enumeration call of the section
             IF failsHere("enum", 0) THEN leave(shape.enum, recs)
             ELSE RunUnit(recs, t, p, fault, sec, 1)
        ELSE IF k > fault.n THEN RunUnit(recs, t, p, fault, sec + 1, 0)
        ELSE LET r1 == IF shape.beforeCond /\ ~fault.flagged THEN recs
                       ELSE AddItem(recs, shape.before, item)
                 r2 == IF shape.afterCond /\ ~fault.flagged THEN r1
                       ELSE AddItem(r1, shape.after, item)
             IN  IF failsHere("call", k) THEN leave(shape.call, r1)
                 ELSE RunUnit(r2, t, p, fault, sec, k + 1)

\* One iteration of the unit loop, client creation included.
ProcessUnit(recs, t, p, fault) ==
    IF fault.fail.at = "client"
    THEN [recs |-> recs, exit |-> Handler(ClientGuard(t))]
    ELSE RunUnit(recs, t, p, fault, 1, 0)

ToolInit ==
    /\ tool \in Tools
    /\ units \in UnitLists(tool)
    /\ tIdx = 0
    /\ recommendations = [c \in Categories(tool) |-> <<>>]
    /\ faults = <<>>
    /\ report = "pending"
    /\ tpc = "loop"
    /\ FanIdle
    /\ CostIdle
    /\ ReqIdle /\ FilterIdle /\ AuditIdle /\ PagesIdle /\ CliIdle

\* A loop iteration in which no call raises.
UnitCompletes ==
    /\ tpc = "loop"
    /\ tIdx < Len(units)
    /\ \E fault \in Faults(tool) :
          /\ fault.fail.at = "none"
          /\ recommendations' =
                ProcessUnit(recommendations, tool, tIdx + 1, fault).recs
          /\ faults' = Append(faults, fault)
    /\ tIdx' = tIdx + 1
    /\ UNCHANGED <<tool, units, report, tpc>>
    /\ UNCHANGED <<fanVars, costVars, reqVars, filterVars, auditVars, pageVars, cliVars>>

\* A loop iteration in which a call raises and a try block inside the loop
\* catches it: the loop goes on with the next unit.
UnitFailureCaught ==
    /\ tpc = "loop"
    /\ tIdx < Len(units)
    /\ \E fault \in Faults(tool) :
          LET out == ProcessUnit(recommendations, tool, tIdx + 1, fault)
          IN  /\ fault.fail.at # "none"
              /\ out.exit = "next_unit"
              /\ recommendations' = out.recs
              /\ faults' = Append(faults, fault)
    /\ tIdx' = tIdx + 1
    /\ UNCHANGED <<tool, units, report, tpc>>
    /\ UNCHANGED <<fanVars, costVars, reqVars, filterVars, auditVars, pageVars, cliVars>>

\* A loop iteration in which a call raises outside every try block of the
\* loop and the function's own try returns the error dict.
UnitFailureAborts ==
    /\ tpc = "loop"
    /\ tIdx < Len(units)
    /\ \E fault \in Faults(tool) :
          LET out == ProcessUnit(recommendations, tool, tIdx + 1, fault)
          IN  /\ out.exit = "error"
              /\ recommendations' = out.recs
              /\ faults' = Append(faults, fault)
    /\ report' = [error |-> "PermissionDenied", recommendations |-> <<>>]
    /\ tpc' = "error"
    /\ UNCHANGED <<tool, units, tIdx>>
    /\ UNCHANGED <<fanVars, costVars, reqVars, filterVars, auditVars, pageVars, cliVars>>

\* A loop iteration in which a call raises outside every try block: the
\* exception leaves the tool.
UnitFailureRaised ==
    /\ tpc = "loop"
    /\ tIdx < Len(units)
    /\ \E fault \in Faults(tool) :
          LET out == ProcessUnit(recommendations, tool, tIdx + 1, fault)
          IN  /\ out.exit = "raise"
              /\ recommendations' = out.recs
              /\ faults' = Append(faults, fault)
    /\ tpc' = "raised"
    /\ UNCHANGED <<tool, units, tIdx, report>>
    /\ UNCHANGED <<fanVars, costVars, reqVars, filterVars, auditVars, pageVars, cliVars>>

\* `return recommendations`
ToolReturn ==
    /\ tpc = "loop"
    /\ tIdx = Len(units)
    /\ report' = recommendations
    /\ tpc' = "returned"
    /\ UNCHANGED <<tool, units, tIdx, recommendations, faults>>
    /\ UNCHANGED <<fanVars, costVars, reqVars, filterVars, auditVars, pageVars, cliVars>>

ToolNext ==
    \/ UnitCompletes
    \/ UnitFailureCaught
    \/ UnitFailureAborts
    \/ UnitFailureRaised
    \/ ToolReturn

SpecTool == ToolInit /\ [][ToolNext]_vars

\* The tools whose whole body is one try block.
OuterTryTools ==
    WholeScopeTools \cup {"analyze_gcp_disks", "analyze_gcp_bigquery"}

\* Runs of those tools, next to analyze_ec2_rightsizing, whose enumeration
\* sits under no try block at all, so that every way a unit can end occurs.
OuterTryInit == ToolInit /\ tool \in OuterTryTools \cup {"analyze_ec2_rightsizing"}

SpecOuterTry == OuterTryInit /\ [][ToolNext]_vars

(***************************************************************************)
(* Properties of the analysis tools.                                       *)
(***************************************************************************)
ToolEnded == tpc \in {"returned", "error", "raised"}

FailedUnits == {p \in 1..Len(faults) : faults[p].fail.at # "none"}

\* C3: an exception raised by a call made while processing one unit never
\* stops the processing of the remaining units and is never raised to the
\* caller: every run ends without raising and with every unit visited.
C3_UnitFailureNeverStopsOrEscapes ==
    ToolEnded => (tpc # "raised" /\ Len(faults) = Len(units))

\* C5: in analyze_aws_disks, analyze_aws_network and analyze_rds_instances a
\* region in which a call raises contributes no item to any list of the
\* returned report, and when every region fails the tool still returns the
\* mapping with every category key present and every list empty.
C5_FailedRegionContributesNothing ==
    (tool \in {"analyze_aws_disks", "analyze_aws_network", "analyze_rds_instances"}
        /\ ToolEnded) =>
        /\ tpc = "returned" =>
              \A c \in DOMAIN report : \A i \in 1..Len(report[c]) :
                  report[c][i].unit \notin FailedUnits
        /\ (Len(faults) = Len(units) /\ FailedUnits = 1..Len(units)) =>
              (tpc = "returned" /\ report = [c \in Categories(tool) |-> <<>>])

\* The try block that surrounds the call site a fault hits.
GuardOf(t, fail) ==
    CASE fail.at = "client" -> ClientGuard(t)
      [] fail.at = "enum" -> Sections(t)[fail.section].enum
      [] fail.at = "call" -> Sections(t)[fail.section].call
      [] OTHER -> "absent"

\* The last unit worked on had a call fail outside every inner try block.
ExceptionEscapesBody ==
    /\ faults # <<>>
    /\ GuardOf(tool, faults[Len(faults)].fail) \in {"outer", "none"}

\* C25: when an exception escapes the body of analyze_azure_disks,
\* analyze_azure_network, analyze_azure_storage, analyze_gcp_storage,
\* analyze_gcp_disks or analyze_gcp_bigquery, the tool raises nothing and
\* returns the message under 'error' next to an empty 'recommendations';
\* otherwise it returns the category lists, and never both in one result.
C25_EscapedExceptionBecomesErrorResult ==
    (tool \in OuterTryTools /\ ToolEnded) =>
        /\ tpc # "raised"
        /\ ExceptionEscapesBody =>
               /\ tpc = "error"
               /\ DOMAIN report = {"error", "recommendations"}
               /\ report.error # ""
               /\ report.recommendations = <<>>
        /\ ~ExceptionEscapesBody =>
               /\ tpc = "returned"
               /\ DOMAIN report = Categories(tool)
        /\ ~({"error"} \subseteq DOMAIN report /\ DOMAIN report \cap Categories(tool) # {})

\* analyze_azure_network whose metric lookup for the second load balancer
\* raises after findings were collected.
C25_Witness ==
    /\ tool = "analyze_azure_network"
    /\ tpc = "error"
    /\ faults # <<>>
    /\ faults[Len(faults)].fail = [at |-> "call", section |-> 2, k |-> 2]
    /\ recommendations["available_resources.load_balancers"] # <<>>
    /\ report.recommendations = <<>>

(***************************************************************************)
(* Cost aggregation: AWS get_cost, Azure get_cost_breakdown behind         *)
(* get_azure_cost, GCP get_gcp_cost_breakdown behind get_gcp_cost.         *)
(*                                                                         *)
(* Amounts are Python floats.  They are modelled as binary floating-point  *)
(* numbers with a MantBits-bit significand (Python: 53) whose unit is one  *)
(* thousandth of the currency unit, so a value is a natural number with at *)
(* most MantBits significant bits, and every arithmetic result is rounded  *)
(* to the nearest such number, ties to the even significand.               *)
(***************************************************************************)
MantBits == 3

MaxRows == 3

RECURSIVE BitLen(_)
BitLen(n) == IF n = 0 THEN 0 ELSE 1 + BitLen(n \div 2)

\* Nearest representable float to the exact value n, ties to even.
FloatRound(n) ==
    LET e == BitLen(n) - MantBits
    IN  IF e <= 0
        THEN n
        ELSE LET u == 2 ^ e
                 q == n \div u
                 r == n % u
             IN  IF 2 * r > u \/ (2 * r = u /\ q % 2 = 1)
                 THEN (q + 1) * u
                 ELSE q * u

\* float(x) of a decimal amount handed over by the provider.
ParseFloat(x) == FloatRound(x)

\* a + b on floats.
FAdd(a, b) == FloatRound(a + b)

\* round(v, 2): nearest multiple of one hundredth (10 thousandths) of the
\* exact value of v, ties to the even hundredth, returned as a float.
Round2(v) ==
    LET q == v \div 10
        r == v % 10
    IN  FloatRound(10 * (IF r > 5 \/ (r = 5 /\ q % 2 = 1) THEN q + 1 ELSE q))

\* A dict is the sequence of its entries in insertion order.
DictKeys(d) == {d[i].key : i \in 1..Len(d)}

\* d[k] = v: an existing key keeps its position, a new key goes last.
DictPut(d, k, v) ==
    IF k \in DictKeys(d)
    THEN [i \in 1..Len(d) |-> IF d[i].key = k THEN [key |-> k, amount |-> v] ELSE d[i]]
    ELSE Append(d, [key |-> k, amount |-> v])

\* d[k] = v in place of d[k] = d.get(k, 0.0) + v.
DictOverwrite(d, k, v) == DictPut(d, k, v)

\* d.get(k, default) that never finds k.
DictGetDefault(d, k, default) == default

DictGet(d, k, default) ==
    IF k \in DictKeys(d)
    THEN d[CHOOSE i \in 1..Len(d) : d[i].key = k].amount
    ELSE default

\* d[k] = d.get(k, 0.0) + v, and defaultdict(float)'s d[k] += v.
DictAdd(d, k, v) == DictPut(d, k, FAdd(DictGet(d, k, 0), v))

\* Place e ahead of every entry whose amount is at most e's.
InsertDescAheadOfTies(sorted, e) ==
    LET ahead == {i \in 1..Len(sorted) : sorted[i].amount > e.amount}
        n == Cardinality(ahead)
    IN  SubSeq(sorted, 1, n) \o <<e>> \o SubSeq(sorted, n + 1, Len(sorted))

\* Place e behind every entry whose amount is at least e's.
InsertDesc(sorted, e) ==
    LET ahead == {i \in 1..Len(sorted) : sorted[i].amount >= e.amount}
        n == Cardinality(ahead)
    IN  SubSeq(sorted, 1, n) \o <<e>> \o SubSeq(sorted, n + 1, Len(sorted))

RECURSIVE SortFrom(_, _)
SortFrom(sorted, items) ==
    IF items = <<>> THEN sorted
    ELSE SortFrom(InsertDesc(sorted, Head(items)), Tail(items))

\* The entries left as they are.
Unsorted(items) == items

\* sorted(items, key=amount, reverse=True): descending by amount, stable.
SortedDesc(items) == SortFrom(<<>>, items)

\* {k: round(v, 2) for k, v in d.items()}
RoundAmounts(d) == [i \in 1..Len(d) |-> [key |-> d[i].key, amount |-> Round2(d[i].amount)]]

RECURSIVE FloatSum(_)
\* Left-to-right float accumulation starting from 0.0.
FloatSum(amounts) ==
    IF amounts = <<>> THEN 0
    ELSE FAdd(FloatSum(SubSeq(amounts, 1, Len(amounts) - 1)), amounts[Len(amounts)])

\* Sample amounts in thousandths: the smallest one, half a hundredth, and the
\* first one from which on the floats are two thousandths apart.
Amounts == {1, 5, 2 ^ MantBits}

Currencies == {"USD", "EUR"}

\* AWS: the Groups of the grouped query, all days in order.
AwsKeys == {"EC2", "S3"}

\* numeric = FALSE is a group whose Amount is not a number: float() raises.
AwsGroups ==
    [key : AwsKeys, amount : Amounts, numeric : {TRUE}]
    \cup {[key |-> "EC2", amount |-> 0, numeric |-> FALSE]}

RECURSIVE Services(_)
\* services after the loop over the groups.
Services(groups) ==
    IF groups = <<>> THEN <<>>
    ELSE LET group == groups[Len(groups)]
         IN  DictAdd(Services(SubSeq(groups, 1, Len(groups) - 1)),
                     group.key, ParseFloat(group.amount))

RECURSIVE PeriodTotal(_)
\* period_total after the loop over the days of the ungrouped query.
PeriodTotal(totals) ==
    IF totals = <<>> THEN 0
    ELSE FAdd(PeriodTotal(SubSeq(totals, 1, Len(totals) - 1)),
              ParseFloat(totals[Len(totals)]))

\* The cost fields of get_cost's return value.
GetCostResult(groups, totals) ==
    [total_cost |-> Round2(PeriodTotal(totals)),
     cost_by_service |-> SortedDesc(Services(groups))]

\* Azure: the usage detail items.  "" stands for an absent or empty attribute,
\* numeric = FALSE for a pretax_cost that float() rejects.
AzureMeters ==
    {[meter_details |-> "Virtual Machines", meter_name |-> "Storage"],
     [meter_details |-> "", meter_name |-> "Storage"],
     [meter_details |-> "", meter_name |-> ""]}

AzureItems ==
    {[properties |-> FALSE, meter |-> [meter_details |-> "", meter_name |-> ""],
      pretax_cost |-> 1, currency |-> "USD", numeric |-> TRUE],
     [properties |-> TRUE, meter |-> [meter_details |-> "", meter_name |-> "Storage"],
      pretax_cost |-> 0, currency |-> "EUR", numeric |-> FALSE]}
    \cup [properties : {TRUE}, meter : AzureMeters,
          pretax_cost : Amounts, currency : Currencies, numeric : {TRUE}]

\* The service name chosen for an item that has properties.
AzureService(item) ==
    IF item.meter.meter_details # "" THEN item.meter.meter_details
    ELSE IF item.meter.meter_name # "" THEN item.meter.meter_name
    ELSE "Unknown Service"

RECURSIVE AzureCostByService(_)
\* cost_by_service and currency after the loop over the items.
AzureCostByService(items) ==
    IF items = <<>> THEN [cost_by_service |-> <<>>, currency |-> "USD"]
    ELSE LET item == items[Len(items)]
             acc == AzureCostByService(SubSeq(items, 1, Len(items) - 1))
         IN  IF item.properties /\ item.numeric
             THEN [cost_by_service |->
                       DictAdd(acc.cost_by_service, AzureService(item),
                               ParseFloat(item.pretax_cost)),
                   currency |-> item.currency]
             ELSE acc

\* get_cost_breakdown's pair (breakdown, error).
GetCostBreakdown(items) ==
    LET acc == AzureCostByService(items)
        ordered == RoundAmounts(SortedDesc(acc.cost_by_service))
    IN  IF acc.cost_by_service = <<>>
        THEN [breakdown |-> <<>>, error |-> "No usage data found for this period."]
        ELSE [breakdown |->
                  [i \in 1..Len(ordered) |->
                      [key |-> ordered[i].key, amount |-> ordered[i].amount,
                       currency |-> acc.currency]],
              error |-> ""]

\* get_azure_cost's return value.
GetAzureCostResult(items) ==
    LET data == GetCostBreakdown(items)
    IN  IF data.breakdown = <<>>
        THEN [cost_summary |-> <<>>,
              error |-> "No Azure cost data found for the current month."]
        ELSE [cost_summary |-> data.breakdown, error |-> data.error]

\* GCP: the rows of the billing query.  region "" is a NULL location.region;
\* the service-wise query selects no region.  numeric = FALSE is a row whose
\* total_cost is NULL (it sorts last under DESC): float() raises.
GcpServices == {"Cloud Storage", "Compute Engine"}

GcpRegionOrder == <<"", "global", "us-central1">>

GcpRows(region_wise) ==
    LET selected == IF region_wise
                    THEN {GcpRegionOrder[i] : i \in DOMAIN GcpRegionOrder}
                    ELSE {""}
    IN  [service : GcpServices, region : selected, total_cost : Amounts,
         currency : Currencies, numeric : {TRUE}]
        \cup [service : {"Compute Engine"}, region : selected, total_cost : {0},
              currency : {"USD"}, numeric : {FALSE}]

RegionRank(r) == CHOOSE i \in DOMAIN GcpRegionOrder : GcpRegionOrder[i] = r

\* What the query can return: one row per group of its GROUP BY, in the order
\* of its ORDER BY (total_cost DESC, within ascending region when region-wise).
QueryResult(rows) ==
    \A i, j \in 1..Len(rows) : i < j =>
        /\ <<rows[i].service, rows[i].region, rows[i].currency>>
               # <<rows[j].service, rows[j].region, rows[j].currency>>
        /\ RegionRank(rows[i].region) <= RegionRank(rows[j].region)
        /\ rows[i].region = rows[j].region => rows[i].total_cost >= rows[j].total_cost

RECURSIVE GcpCostByService(_)
\* cost_by_service after the loop over the rows.
GcpCostByService(rows) ==
    IF rows = <<>> THEN <<>>
    ELSE LET row == rows[Len(rows)]
         IN  DictAdd(GcpCostByService(SubSeq(rows, 1, Len(rows) - 1)),
                     row.service, ParseFloat(row.total_cost))

\* row.region or "global"
RowRegion(row) == IF row.region = "" THEN "global" ELSE row.region

RECURSIVE CostByRegion(_)
\* cost_by_region after the loop over the rows: a dict of dicts.
CostByRegion(rows) ==
    IF rows = <<>> THEN <<>>
    ELSE LET row == rows[Len(rows)]
             acc == CostByRegion(SubSeq(rows, 1, Len(rows) - 1))
             region == RowRegion(row)
             known == IF \E i \in 1..Len(acc) : acc[i].region = region
                      THEN acc
                      ELSE Append(acc, [region |-> region, services |-> <<>>])
         IN  [i \in 1..Len(known) |->
                 IF known[i].region = region
                 THEN [region |-> region,
                       services |-> DictAdd(known[i].services, row.service,
                                            ParseFloat(row.total_cost))]
                 ELSE known[i]]

\* total_cost after the loop over the rows.
GcpTotalCost(rows) == FloatSum([i \in 1..Len(rows) |-> ParseFloat(rows[i].total_cost)])

GcpCurrencyFirst(rows) == IF rows = <<>> THEN "USD" ELSE rows[1].currency

\* currency after the loop over the rows.
GcpCurrency(rows) == IF rows = <<>> THEN "USD" ELSE rows[Len(rows)].currency

\* The cost fields of get_gcp_cost's return value, service-wise.
GcpCostResult(rows) ==
    [total_cost |-> Round2(GcpTotalCost(rows)),
     currency |-> GcpCurrency(rows),
     cost_by_service |-> RoundAmounts(GcpCostByService(rows)),
     error |-> ""]

\* The cost fields of get_gcp_cost's return value, region-wise.
GcpRegionCostResult(rows) ==
    LET table == CostByRegion(rows)
    IN  [total_cost |-> Round2(GcpTotalCost(rows)),
         currency |-> GcpCurrency(rows),
         cost_by_region |->
             [i \in 1..Len(table) |->
                 [region |-> table[i].region,
                  services |-> RoundAmounts(table[i].services)]],
         error |-> ""]

\* Every amount of the answer converts with float().
Numeric(rows) == \A i \in 1..Len(rows) : rows[i].numeric

CostOps == {"get_cost", "get_azure_cost", "get_gcp_cost", "get_gcp_cost_region_wise"}

\* The provider's answers a cost operation can be run on.
BillRows(op) ==
    CASE op = "get_cost" -> SeqsUpTo(AwsGroups, MaxRows)
      [] op = "get_azure_cost" -> SeqsUpTo(AzureItems, MaxRows)
      [] op = "get_gcp_cost" ->
            {rows \in SeqsUpTo(GcpRows(FALSE), MaxRows) : QueryResult(rows)}
      [] op = "get_gcp_cost_region_wise" ->
            {rows \in SeqsUpTo(GcpRows(TRUE), MaxRows) : QueryResult(rows)}

CostInit ==
    /\ costOp \in CostOps
    /\ billRows \in BillRows(costOp)
    /\ dailyTotals \in IF costOp = "get_cost" THEN SeqsUpTo(Amounts, MaxRows) ELSE {<<>>}
    /\ costTable = <<>>
    /\ costOut = "pending"
    /\ cpc = "call"
    /\ FanIdle
    /\ ToolIdle
    /\ ReqIdle /\ FilterIdle /\ AuditIdle /\ PagesIdle /\ CliIdle

GetCost ==
    /\ cpc = "call"
    /\ costOp = "get_cost"
    /\ IF Numeric(billRows)
       THEN /\ costTable' = Services(billRows)
            /\ costOut' = GetCostResult(billRows, dailyTotals)
            /\ cpc' = "done"
       ELSE /\ costTable' = <<>>
            /\ costOut' = [raised |-> "ValueError"]
            /\ cpc' = "raised"
    /\ UNCHANGED <<costOp, billRows, dailyTotals, fanVars, toolVars>>
    /\ UNCHANGED <<reqVars, filterVars, auditVars, pageVars, cliVars>>

GetAzureCost ==
    /\ cpc = "call"
    /\ costOp = "get_azure_cost"
    /\ costTable' = AzureCostByService(billRows).cost_by_service
    /\ costOut' = GetAzureCostResult(billRows)
    /\ cpc' = "done"
    /\ UNCHANGED <<costOp, billRows, dailyTotals, fanVars, toolVars>>
    /\ UNCHANGED <<reqVars, filterVars, auditVars, pageVars, cliVars>>

GetGcpCost ==
    /\ cpc = "call"
    /\ costOp = "get_gcp_cost"
    /\ IF Numeric(billRows)
       THEN /\ costTable' = GcpCostByService(billRows)
            /\ costOut' = GcpCostResult(billRows)
            /\ cpc' = "done"
       ELSE /\ costTable' = <<>>
            /\ costOut' = [report |-> <<>>, error |-> "TypeError"]
            /\ cpc' = "error"
    /\ UNCHANGED <<costOp, billRows, dailyTotals, fanVars, toolVars>>
    /\ UNCHANGED <<reqVars, filterVars, auditVars, pageVars, cliVars>>

GetGcpCostRegionWise ==
    /\ cpc = "call"
    /\ costOp = "get_gcp_cost_region_wise"
    /\ IF Numeric(billRows)
       THEN /\ costTable' = CostByRegion(billRows)
            /\ costOut' = GcpRegionCostResult(billRows)
            /\ cpc' = "done"
       ELSE /\ costTable' = <<>>
            /\ costOut' = [report |-> <<>>, error |-> "TypeError"]
            /\ cpc' = "error"
    /\ UNCHANGED <<costOp, billRows, dailyTotals, fanVars, toolVars>>
    /\ UNCHANGED <<reqVars, filterVars, auditVars, pageVars, cliVars>>

CostNext == GetCost \/ GetAzureCost \/ GetGcpCost \/ GetGcpCostRegionWise

SpecCost == CostInit /\ [][CostNext]_vars

(***************************************************************************)
(* Properties of the cost aggregation.                                     *)
(***************************************************************************)
\* The rows that carry a grouping key, as (key, amount) pairs in arrival order.
KeyedRows(op, rows) ==
    CASE op = "get_cost" ->
            [i \in 1..Len(rows) |-> [key |-> rows[i].key, amount |-> rows[i].amount]]
      [] op = "get_azure_cost" ->
            LET HasProperties(item) == item.properties /\ item.numeric
                kept == SelectSeq(rows, HasProperties)
            IN  [i \in 1..Len(kept) |->
                    [key |-> AzureService(kept[i]), amount |-> kept[i].pretax_cost]]
      [] OTHER ->
            [i \in 1..Len(rows) |->
                [key |-> rows[i].service, amount |-> rows[i].total_cost]]

\* The rows of one region of the region-wise query.
RegionRows(rows, region) ==
    LET InRegion(row) == RowRegion(row) = region
    IN  KeyedRows("get_gcp_cost_region_wise", SelectSeq(rows, InRegion))

\* The amounts of the rows carrying key k, in arrival order.
AmountsOf(krows, k) ==
    LET Carries(r) == r.key = k
        kept == SelectSeq(krows, Carries)
    IN  [i \in 1..Len(kept) |-> ParseFloat(kept[i].amount)]

\* Position of the first row carrying key k.
FirstArrival(krows, k) ==
    CHOOSE i \in 1..Len(krows) :
        krows[i].key = k /\ \A j \in 1..(i - 1) : krows[j].key # k

\* Every breakdown handed to the caller, with the rows and the table behind it.
Breakdowns ==
    CASE costOp = "get_cost" ->
            {[rows |-> KeyedRows(costOp, billRows), table |-> costTable,
              out |-> costOut.cost_by_service]}
      [] costOp = "get_azure_cost" ->
            {[rows |-> KeyedRows(costOp, billRows), table |-> costTable,
              out |-> costOut.cost_summary]}
      [] costOp = "get_gcp_cost" ->
            {[rows |-> KeyedRows(costOp, billRows), table |-> costTable,
              out |-> costOut.cost_by_service]}
      [] costOp = "get_gcp_cost_region_wise" ->
            {[rows |-> RegionRows(billRows, costTable[i].region),
              table |-> costTable[i].services,
              out |-> costOut.cost_by_region[i].services] : i \in 1..Len(costTable)}

CostDone == cpc = "done"

ServiceWise == costOp \in {"get_cost", "get_azure_cost", "get_gcp_cost"}

\* C6: the table of the service-wise aggregation of AWS, Azure and GCP has
\* exactly the grouping keys that occur in the rows, and holds for each key,
\* before any rounding to two decimals, the sum of the amounts of the rows
\* carrying that key, added up in arrival order.
C6_TableSumsRowsPerKey ==
    (CostDone /\ ServiceWise) =>
        LET krows == KeyedRows(costOp, billRows)
        IN  /\ DictKeys(costTable) = {krows[i].key : i \in 1..Len(krows)}
            /\ \A i, j \in 1..Len(costTable) :
                   costTable[i].key = costTable[j].key => i = j
            /\ \A i \in 1..Len(costTable) :
                   costTable[i].amount = FloatSum(AmountsOf(krows, costTable[i].key))

\* Two keys interleaved, one of them fed by two rows.
C6_Witness ==
    /\ CostDone /\ ServiceWise
    /\ Len(costTable) = 2
    /\ LET krows == KeyedRows(costOp, billRows)
       IN  /\ Len(krows) = 3
           /\ krows[1].key = krows[3].key
           /\ krows[1].key # krows[2].key
           /\ costTable[1].amount > krows[1].amount

\* The final key-to-amount mapping a cost operation returns for the given
\* rows, as the set of its (region, key, amount) triples.
FinalMapping(op, rows) ==
    LET Pairs(region, d) == {<<region, d[i].key, d[i].amount>> : i \in 1..Len(d)}
    IN  CASE op = "get_cost" -> Pairs("", GetCostResult(rows, dailyTotals).cost_by_service)
          [] op = "get_azure_cost" -> Pairs("", GetAzureCostResult(rows).cost_summary)
          [] op = "get_gcp_cost" -> Pairs("", GcpCostResult(rows).cost_by_service)
          [] op = "get_gcp_cost_region_wise" ->
                LET byRegion == GcpRegionCostResult(rows).cost_by_region
                IN  UNION {Pairs(byRegion[i].region, byRegion[i].services) :
                               i \in 1..Len(byRegion)}

\* The rows in the order given by the permutation f of their positions.
Permuted(rows, f) == [i \in 1..Len(rows) |-> rows[f[i]]]

RECURSIVE SubsetSum(_, _)
\* Exact sum of the amounts at the positions in S.
SubsetSum(amounts, S) ==
    IF S = {} THEN 0
    ELSE LET i == CHOOSE x \in S : TRUE
         IN  amounts[i] + SubsetSum(amounts, S \ {i})

\* No float addition of these amounts, in whatever order, has to round.
AddsExactly(amounts) ==
    \A S \in SUBSET (1..Len(amounts)) :
        FloatRound(SubsetSum(amounts, S)) = SubsetSum(amounts, S)

\* The rows behind the amount returned for key k of the given region.
RowsBehind(region, k) ==
    IF costOp = "get_gcp_cost_region_wise"
    THEN AmountsOf(RegionRows(billRows, region), k)
    ELSE AmountsOf(KeyedRows(costOp, billRows), k)

C8_BreakdownDescending ==
    CostDone =>
        \A b \in Breakdowns : \A i, j \in 1..Len(b.out) :
            i < j => DictGet(b.table, b.out[i].key, 0) >= DictGet(b.table, b.out[j].key, 0)

\* Grouping keys in ascending order of Python's string comparison.
KeyOrder ==
    <<"Cloud Storage", "Compute Engine", "EC2", "S3", "Storage",
      "Unknown Service", "Virtual Machines">>

LexLess(a, b) ==
    \E i, j \in DOMAIN KeyOrder : KeyOrder[i] = a /\ KeyOrder[j] = b /\ i < j

\* C9 as stated: keys with equal summed amounts are listed in ascending
\* lexical order of the key.
C9_TiesByKeyAscending ==
    CostDone =>
        \A b \in Breakdowns : \A i, j \in 1..Len(b.out) :
            (i < j /\ DictGet(b.table, b.out[i].key, 0) = DictGet(b.table, b.out[j].key, 0))
                => LexLess(b.out[i].key, b.out[j].key)

\* C9, amended: keys with equal summed amounts are listed in the order in
\* which they first occur in the rows.
C9_TiesByFirstArrival ==
    CostDone =>
        \A b \in Breakdowns : \A i, j \in 1..Len(b.out) :
            (i < j /\ DictGet(b.table, b.out[i].key, 0) = DictGet(b.table, b.out[j].key, 0))
                => FirstArrival(b.rows, b.out[i].key) < FirstArrival(b.rows, b.out[j].key)

\* A sorted breakdown with a tie behind a larger amount that arrived last.
C9_Witness ==
    /\ CostDone
    /\ costOp \in {"get_cost", "get_azure_cost"}
    /\ \E b \in Breakdowns :
           /\ Len(b.out) = 3
           /\ DictGet(b.table, b.out[2].key, 0) = DictGet(b.table, b.out[3].key, 0)
           /\ DictGet(b.table, b.out[1].key, 0) > DictGet(b.table, b.out[2].key, 0)
           /\ FirstArrival(b.rows, b.out[1].key) > FirstArrival(b.rows, b.out[3].key)

\* C10: every amount handed to the caller, total_cost and each amount of a
\* breakdown, is the accumulated sum rounded to two decimals.
C10_ReturnedAmountsRounded ==
    CostDone =>
        /\ \A b \in Breakdowns : \A i \in 1..Len(b.out) :
               b.out[i].amount = Round2(FloatSum(AmountsOf(b.rows, b.out[i].key)))
        /\ costOp = "get_cost" =>
               costOut.total_cost =
                   Round2(FloatSum([i \in 1..Len(dailyTotals) |-> ParseFloat(dailyTotals[i])]))
        /\ costOp \in {"get_gcp_cost", "get_gcp_cost_region_wise"} =>
               costOut.total_cost =
                   Round2(FloatSum([i \in 1..Len(billRows) |->
                                       ParseFloat(billRows[i].total_cost)]))

CostEnded == cpc # "call"

\* C21: one record whose amount does not convert never ends the aggregation:
\* the operation completes and its table is the one the other records give.
C21_UnparsableRecordSkipped ==
    CostEnded =>
        LET IsNumeric(row) == row.numeric
            kept == SelectSeq(billRows, IsNumeric)
        IN  /\ CostDone
            /\ costTable =
                   CASE costOp = "get_cost" -> Services(kept)
                     [] costOp = "get_azure_cost" -> AzureCostByService(kept).cost_by_service
                     [] costOp = "get_gcp_cost" -> GcpCostByService(kept)
                     [] OTHER -> CostByRegion(kept)

\* The items the Azure loop folded, in order.
AzureFolded ==
    LET Folded(item) == item.properties /\ item.numeric
    IN  SelectSeq(billRows, Folded)

\* C22: amounts are summed per key whatever their currency, and the currency
\* reported is that of the last row processed, USD when there was none:
\* on every entry of the Azure breakdown, once on the GCP report.
C22_CurrencyOfLastRow ==
    CostDone =>
        /\ costOp = "get_azure_cost" =>
               /\ \A i \in 1..Len(costOut.cost_summary) :
                      costOut.cost_summary[i].currency =
                          AzureFolded[Len(AzureFolded)].currency
               /\ \A i \in 1..Len(costTable) :
                      costTable[i].amount =
                          FloatSum(AmountsOf(KeyedRows(costOp, billRows), costTable[i].key))
        /\ costOp \in {"get_gcp_cost", "get_gcp_cost_region_wise"} =>
               costOut.currency =
                   IF billRows = <<>> THEN "USD" ELSE billRows[Len(billRows)].currency
        /\ costOp = "get_gcp_cost" =>
               \A i \in 1..Len(costTable) :
                   costTable[i].amount =
                       FloatSum(AmountsOf(KeyedRows(costOp, billRows), costTable[i].key))

\* One key fed by rows in two currencies, the last row's currency not the
\* first's; a GCP answer without rows is reached as well.
C22_Witness ==
    /\ CostDone
    /\ costOp \in {"get_azure_cost", "get_gcp_cost"}
    /\ Len(billRows) >= 2
    /\ Len(costTable) = 1
    /\ billRows[1].numeric /\ billRows[Len(billRows)].numeric
    /\ billRows[1].currency # billRows[Len(billRows)].currency
    /\ costOp = "get_azure_cost" =>
           billRows[1].properties /\ billRows[Len(billRows)].properties

(***************************************************************************)
(* The request boundary of the cost operations: get_cost (AWS),            *)
(* get_gcp_cost with get_gcp_cost_breakdown, get_azure_cost with           *)
(* get_cost_breakdown.  The rows a successful query returns are the        *)
(* subject of SpecCost; here a query succeeds or raises.                   *)
(*                                                                         *)
(* Dates are those of the leap year 2024.                                  *)
(***************************************************************************)
MaxDays == 3

MonthLengths == <<31, 29, 31, 30, 31, 30, 31, 31, 30, 31, 30, 31>>

Date(m, d) == [year |-> 2024, month |-> m, day |-> d]

ValidDate(dt) == dt.month \in DOMAIN MonthLengths /\ dt.day \in 1..MonthLengths[dt.month]

\* date.toordinal(), counted from the first day of the year.
Ordinal(dt) == SumSeq(SubSeq(MonthLengths, 1, dt.month - 1)) + dt.day

\* date.fromordinal()
FromOrdinal(n) ==
    CHOOSE dt \in {Date(m, d) : m \in DOMAIN MonthLengths, d \in 1..31} :
        ValidDate(dt) /\ Ordinal(dt) = n

\* date - timedelta(days=k) moved one day too far.
MinusDaysAndOne(dt, k) == FromOrdinal(Ordinal(dt) - k - 1)

\* date - timedelta(days=k)
MinusDays(dt, k) == FromOrdinal(Ordinal(dt) - k)

\* today.replace(day=1) that leaves the day alone.
KeepDay(dt) == dt

\* today.replace(day=1)
MonthStart(dt) == [dt EXCEPT !.day = 1]

Pad2(n) == IF n < 10 THEN "0" \o ToString(n) ELSE ToString(n)

\* date.isoformat()
Isoformat(dt) == ToString(dt.year) \o "-" \o Pad2(dt.month) \o "-" \o Pad2(dt.day)

\* The same date written without leading zeros, which %m and %d accept too.
Unpadded(dt) == ToString(dt.year) \o "-" \o ToString(dt.month) \o "-" \o ToString(dt.day)

\* The dates a request can name, in either spelling.
NamedDates == {Date(2, 28), Date(2, 29), Date(3, 1)}

\* datetime.strptime(text, "%Y-%m-%d").date(): the date, or a ValueError.
Strptime(text) ==
    IF \E dt \in NamedDates : text \in {Isoformat(dt), Unpadded(dt)}
    THEN [ok |-> TRUE,
          date |-> CHOOSE dt \in NamedDates : text \in {Isoformat(dt), Unpadded(dt)}]
    ELSE [ok |-> FALSE, error |-> "ValueError"]

\* Python None for a string argument.
None == "None"

\* Values of start_date_iso and end_date_iso: absent, empty, three dates in
\* ISO spelling, one without leading zeros, a day that does not exist, and
\* another format.
DateArgs ==
    {None, "", "2024-02-28", "2024-02-29", "2024-03-01", "2024-3-1",
     "2024-02-30", "03/01/2024"}

\* Values of time_range_days: <<>> is None, <<n>> the integer n.
TimeRanges == {<<>>} \cup {<<n>> : n \in (0 - MaxDays)..MaxDays}

\* Python truth of a string argument and of time_range_days.
TruthyNotNone(arg) == arg # None

\* Python's truth value of an Optional[str] argument.
Truthy(arg) == arg \notin {None, ""}

TruthyDays(days) == days # <<>> /\ days # <<0>>

\* The date range resolution shared by get_cost and get_gcp_cost_breakdown,
\* with time_range_days taking precedence over explicit dates.
ResolveDaysFirst(args, now) ==
    IF TruthyDays(args.time_range_days)
    THEN [ok |-> TRUE, start |-> MinusDays(now, args.time_range_days[1] - 1), end |-> now]
    ELSE IF Truthy(args.start_date_iso) /\ Truthy(args.end_date_iso)
    THEN LET s == Strptime(args.start_date_iso)
             e == Strptime(args.end_date_iso)
         IN  IF s.ok /\ e.ok
             THEN [ok |-> TRUE, start |-> s.date, end |-> e.date]
             ELSE [ok |-> FALSE, error |-> "ValueError"]
    ELSE [ok |-> TRUE, start |-> MonthStart(now), end |-> now]

\* The date range resolution shared by get_cost and get_gcp_cost_breakdown.
Resolve(args, now) ==
    IF Truthy(args.start_date_iso) /\ Truthy(args.end_date_iso)
    THEN LET s == Strptime(args.start_date_iso)
             e == Strptime(args.end_date_iso)
         IN  IF s.ok /\ e.ok
             THEN [ok |-> TRUE, start |-> s.date, end |-> e.date]
             ELSE [ok |-> FALSE, error |-> "ValueError"]
    ELSE IF TruthyDays(args.time_range_days)
    THEN [ok |-> TRUE, start |-> MinusDays(now, args.time_range_days[1] - 1), end |-> now]
    ELSE [ok |-> TRUE, start |-> MonthStart(now), end |-> now]

\* Azure get_cost_breakdown takes no dates: the month so far.
ResolveMonthToDate(args, now) == [ok |-> TRUE, start |-> MonthStart(now), end |-> now]

ReqOps == {"get_cost", "get_azure_cost", "get_gcp_cost"}

\* The arguments a cost operation can be called with.
ReqArgs(op) ==
    IF op = "get_azure_cost"
    THEN {[time_range_days |-> <<>>, start_date_iso |-> None, end_date_iso |-> None,
           region_wise |-> FALSE]}
    ELSE [time_range_days : TimeRanges, start_date_iso : DateArgs,
          end_date_iso : DateArgs,
          region_wise : IF op = "get_gcp_cost" THEN BOOLEAN ELSE {FALSE}]

\* What the provider can do: session or credential acquisition works or
\* fails; the billing query returns data, raises, or (GCP) finds no billing
\* export, or (Azure) returns no usage.
Providers(op) ==
    [session : {"ok", "fails"},
     query : {"ok", "fails"} \cup (CASE op = "get_gcp_cost" -> {"not_found"}
                                     [] op = "get_azure_cost" -> {"empty"}
                                     [] OTHER -> {})]

ReqInit ==
    /\ reqOp \in ReqOps
    /\ reqArgs \in ReqArgs(reqOp)
    /\ today \in {Date(3, 1), Date(3, 2)}
    /\ provider \in Providers(reqOp)
    /\ session = "none"
    /\ window = [resolved |-> FALSE]
    /\ providerCalls = <<>>
    /\ reqOut = "pending"
    /\ rpc = "acquire"
    /\ FanIdle /\ ToolIdle /\ CostIdle /\ FilterIdle /\ AuditIdle /\ PagesIdle /\ CliIdle

\* get_boto3_session hands back None with a message when it fails;
\* get_gcp_credentials and get_azure_credentials raise.
AcquireSession ==
    /\ rpc = "acquire"
    /\ providerCalls' = Append(providerCalls, "acquire")
    /\ IF provider.session = "ok"
       THEN /\ session' = "session"
            /\ rpc' = IF reqOp = "get_gcp_cost" THEN "resolve" ELSE "client"
            /\ UNCHANGED reqOut
       ELSE IF reqOp = "get_cost"
       THEN /\ session' = None
            /\ rpc' = "client"
            /\ UNCHANGED reqOut
       ELSE /\ rpc' = "raised"
            /\ reqOut' = [kind |-> "raised", exception |-> "CredentialError"]
            /\ UNCHANGED session
    /\ UNCHANGED <<reqOp, reqArgs, today, provider, window>>
    /\ UNCHANGED <<fanVars, toolVars, costVars, filterVars, auditVars, pageVars, cliVars>>

\* session.client("ce") in get_cost; ConsumptionManagementClient(...) inside
\* the try of get_cost_breakdown.
CreateClient ==
    /\ rpc = "client"
    /\ IF session = None
       THEN /\ rpc' = "raised"
            /\ reqOut' = [kind |-> "raised", exception |-> "AttributeError"]
            /\ UNCHANGED providerCalls
       ELSE /\ rpc' = "resolve"
            /\ providerCalls' = Append(providerCalls, "client")
            /\ UNCHANGED reqOut
    /\ UNCHANGED <<reqOp, reqArgs, today, provider, session, window>>
    /\ UNCHANGED <<fanVars, toolVars, costVars, filterVars, auditVars, pageVars, cliVars>>

\* The date range resolution.  A ValueError of strptime leaves get_cost; in
\* get_gcp_cost_breakdown it is caught and handed back as the error text.
ResolveWindow ==
    /\ rpc = "resolve"
    /\ LET r == IF reqOp = "get_azure_cost"
                THEN ResolveMonthToDate(reqArgs, today)
                ELSE Resolve(reqArgs, today)
       IN  IF r.ok
           THEN /\ window' = [resolved |-> TRUE, start |-> r.start, end |-> r.end]
                /\ rpc' = "query"
                /\ UNCHANGED reqOut
           ELSE /\ UNCHANGED window
                /\ IF reqOp = "get_cost"
                   THEN /\ rpc' = "raised"
                        /\ reqOut' = [kind |-> "raised", exception |-> r.error]
                   ELSE /\ rpc' = "returned"
                        /\ reqOut' = [kind |-> "error", error |-> r.error]
    /\ UNCHANGED <<reqOp, reqArgs, today, provider, session, providerCalls>>
    /\ UNCHANGED <<fanVars, toolVars, costVars, filterVars, auditVars, pageVars, cliVars>>

\* round(x, 2) of an amount in thousandths that a float holds exactly.
RoundCents(x) ==
    LET q == x \div 10
        r == x % 10
    IN  10 * (IF r > 5 \/ (r = 5 /\ q % 2 = 1) THEN q + 1 ELSE q)

\* mock_services of the NotFound fallback, costs in thousandths.
MockServices ==
    <<[service |-> "Compute Engine", cost |-> 102500, currency |-> "USD",
       region |-> "us-central1"],
      [service |-> "Cloud Storage", cost |-> 21800, currency |-> "USD",
       region |-> "global"]>>

MockReportUnlabelled(w, region_wise) ==
    [kind |-> "result", start_date |-> Isoformat(w.start),
     end_date |-> Isoformat(w.end), error |-> "", mock |-> FALSE]

\* What get_gcp_cost hands back when the billing export table is missing.
\* The two services and the two regions are distinct, so each grouped entry
\* is 0.0 + cost, the cost itself.
MockReport(w, region_wise) ==
    LET total == SumSeq([i \in DOMAIN MockServices |-> MockServices[i].cost])
        common == [kind |-> "result", start_date |-> Isoformat(w.start),
                   end_date |-> Isoformat(w.end), total_cost |-> RoundCents(total),
                   currency |-> "USD", error |-> "", mock |-> TRUE]
    IN  IF region_wise
        THEN common @@
             [cost_by_region |->
                  [i \in DOMAIN MockServices |->
                      [region |-> MockServices[i].region,
                       services |-> <<[key |-> MockServices[i].service,
                                       amount |-> MockServices[i].cost]>>]],
              note |-> "Returned mock region-wise data as no billing export was found."]
        ELSE common @@
             [cost_by_service |->
                  [i \in DOMAIN MockServices |->
                      [key |-> MockServices[i].service,
                       amount |-> MockServices[i].cost]],
              note |-> "Returned mock service-wise data as no billing export was found."]

\* The error text of get_cost_breakdown's pair for each outcome of its query.
BreakdownError(outcome) ==
    CASE outcome = "ok" -> ""
      [] outcome = "empty" -> "No usage data found for this period."
      [] OTHER -> "query failed"

\* The value an operation hands back once its queries are through.
RequestResult(op, args, outcome, w) ==
    CASE op = "get_cost" ->
            IF outcome = "ok"
            THEN [kind |-> "result", start_date |-> Isoformat(w.start),
                  end_date |-> Isoformat(w.end)]
            ELSE [kind |-> "raised", exception |-> "ClientError"]
      [] op = "get_gcp_cost" ->
            IF outcome = "fails"
            THEN [kind |-> "error", error |-> "query failed"]
            ELSE IF outcome = "not_found"
            THEN MockReport(w, args.region_wise)
            ELSE [kind |-> "result", start_date |-> Isoformat(w.start),
                  end_date |-> Isoformat(w.end), error |-> "", mock |-> FALSE]
      [] op = "get_azure_cost" ->
            LET cost_data == IF outcome = "ok" THEN <<"entry">> ELSE <<>>
                error == BreakdownError(outcome)
            IN  IF cost_data = <<>>
                THEN [kind |-> "error", cost_summary |-> <<>>,
                      error |-> "No Azure cost data found for the current month."]
                ELSE [kind |-> "result", cost_summary |-> cost_data, error |-> error]

\* The billing queries over the resolved window, and the return.
RunQuery ==
    /\ rpc = "query"
    /\ providerCalls' =
           IF reqOp = "get_gcp_cost"
           THEN providerCalls \o <<"client", "query">>
           ELSE Append(providerCalls, "query")
    /\ reqOut' = RequestResult(reqOp, reqArgs, provider.query, window)
    /\ rpc' = IF reqOut'.kind = "raised" THEN "raised" ELSE "returned"
    /\ UNCHANGED <<reqOp, reqArgs, today, provider, session, window>>
    /\ UNCHANGED <<fanVars, toolVars, costVars, filterVars, auditVars, pageVars, cliVars>>

ReqNext == AcquireSession \/ CreateClient \/ ResolveWindow \/ RunQuery

SpecReq == ReqInit /\ [][ReqNext]_vars

(***************************************************************************)
(* Properties of the request boundary.                                     *)
(***************************************************************************)
ReqEnded == rpc \in {"returned", "raised"}

TakesDates == reqOp \in {"get_cost", "get_gcp_cost"}

\* Inclusive number of days of a window.
WindowDays(w) == Ordinal(w.end) - Ordinal(w.start) + 1

\* The well-formed date arguments, in chronological order.
WellFormedDates == <<"2024-02-28", "2024-02-29", "2024-03-01">>

\* Both dates are supplied and at least one of them does not parse.
MalformedDates ==
    /\ Truthy(reqArgs.start_date_iso) /\ Truthy(reqArgs.end_date_iso)
    /\ \E a \in {reqArgs.start_date_iso, reqArgs.end_date_iso} :
           \A i \in DOMAIN WellFormedDates : a # WellFormedDates[i] /\ a # "2024-3-1"

\* C11: with a positive time_range_days = N and no explicit dates, get_cost
\* and get_gcp_cost_breakdown resolve a window of exactly N days that ends
\* today, and hand back its two dates.
C11_DaysWindowEndsToday ==
    (/\ TakesDates
     /\ window.resolved
     /\ ~Truthy(reqArgs.start_date_iso) /\ ~Truthy(reqArgs.end_date_iso)
     /\ reqArgs.time_range_days # <<>> /\ reqArgs.time_range_days[1] > 0) =>
        /\ window.end = today
        /\ Ordinal(window.start) <= Ordinal(window.end)
        /\ WindowDays(window) = reqArgs.time_range_days[1]
        /\ (rpc = "returned" /\ reqOut.kind = "result") =>
               /\ reqOut.end_date = Isoformat(today)
               /\ reqOut.start_date = Isoformat(window.start)

\* A window of MaxDays days that starts in the month before today's.
C11_Witness ==
    /\ TakesDates
    /\ rpc = "returned" /\ reqOut.kind = "result"
    /\ reqArgs.start_date_iso = None /\ reqArgs.end_date_iso = None
    /\ reqArgs.time_range_days = <<MaxDays>>
    /\ window.start.month # today.month

\* C12: well-formed start_date_iso <= end_date_iso are the resolved window
\* and come back verbatim as start_date and end_date, whatever
\* time_range_days is.
C12_ExplicitDatesVerbatim ==
    (TakesDates /\ \E i, j \in DOMAIN WellFormedDates :
                       /\ i <= j
                       /\ reqArgs.start_date_iso = WellFormedDates[i]
                       /\ reqArgs.end_date_iso = WellFormedDates[j]) =>
        /\ rpc \in {"query", "returned"} => window.resolved
        /\ window.resolved =>
               /\ Isoformat(window.start) = reqArgs.start_date_iso
               /\ Isoformat(window.end) = reqArgs.end_date_iso
        /\ (rpc = "returned" /\ reqOut.kind = "result") =>
               /\ reqOut.start_date = reqArgs.start_date_iso
               /\ reqOut.end_date = reqArgs.end_date_iso

\* Explicit dates two days apart together with a time_range_days.
C12_Witness ==
    /\ TakesDates
    /\ rpc = "returned" /\ reqOut.kind = "result"
    /\ reqArgs.start_date_iso = WellFormedDates[1]
    /\ reqArgs.end_date_iso = WellFormedDates[3]
    /\ TruthyDays(reqArgs.time_range_days)

\* C13: with neither explicit dates nor time_range_days, the window of
\* get_cost, get_gcp_cost_breakdown and get_cost_breakdown runs from the
\* first day of the current month to today.
C13_DefaultMonthToDate ==
    (/\ window.resolved
     /\ reqArgs.time_range_days = <<>>
     /\ reqArgs.start_date_iso = None /\ reqArgs.end_date_iso = None) =>
        /\ window.end = today
        /\ window.start = Date(today.month, 1)
        /\ (rpc = "returned" /\ reqOut.kind = "result" /\ TakesDates) =>
               /\ reqOut.start_date = Isoformat(Date(today.month, 1))
               /\ reqOut.end_date = Isoformat(today)

\* The default window on a day that is not the first of its month.
C13_Witness ==
    /\ rpc = "returned" /\ reqOut.kind = "result"
    /\ reqArgs.time_range_days = <<>>
    /\ reqArgs.start_date_iso = None /\ reqArgs.end_date_iso = None
    /\ today.day # 1
    /\ window.resolved /\ window.start # window.end

\* C14: every resolved window has end >= start, and explicit dates with
\* end before start end in an error instead of a window.
C14_WindowEndNotBeforeStart ==
    /\ window.resolved => Ordinal(window.end) >= Ordinal(window.start)
    /\ (/\ TakesDates
        /\ provider.session = "ok"
        /\ rpc \in {"query", "returned", "raised"}
        /\ \E i, j \in DOMAIN WellFormedDates :
               /\ i > j
               /\ reqArgs.start_date_iso = WellFormedDates[i]
               /\ reqArgs.end_date_iso = WellFormedDates[j]) =>
           (rpc = "returned" /\ reqOut.kind = "error" /\ ~window.resolved)

\* C15: with a working session, a malformed start_date_iso or end_date_iso
\* ends get_cost and get_gcp_cost in a returned error, with no session
\* validation, client construction or query made before it (loading the GCP
\* credentials, which get_gcp_cost does first, is not counted).
C15_DateErrorBeforeProviderCalls ==
    (TakesDates /\ MalformedDates /\ provider.session = "ok" /\ ReqEnded) =>
        /\ rpc = "returned"
        /\ reqOut.kind = "error"
        /\ providerCalls = IF reqOp = "get_gcp_cost" THEN <<"acquire">> ELSE <<>>

\* C20: when session or credential acquisition fails, the operation makes
\* no further provider call, raises nothing, and returns an error field.
C20_SessionFailureReturnsError ==
    (provider.session = "fails" /\ ReqEnded) =>
        /\ rpc = "returned"
        /\ reqOut.kind = "error"
        /\ providerCalls = <<"acquire">>

\* C24: whenever get_cost_breakdown fails with a message, the error field of
\* get_azure_cost's result carries that message.
C24_AzureErrorCarriesMessage ==
    (/\ reqOp = "get_azure_cost"
     /\ rpc = "returned"
     /\ BreakdownError(provider.query) # "") =>
        reqOut.error = BreakdownError(provider.query)

\* The (key, amount) pairs of a report's breakdown, whichever its grouping.
ReportFigures(result) ==
    IF "cost_by_service" \in DOMAIN result
    THEN {<<result.cost_by_service[i].key, result.cost_by_service[i].amount>> :
              i \in DOMAIN result.cost_by_service}
    ELSE UNION {{<<result.cost_by_region[i].services[j].key,
                   result.cost_by_region[i].services[j].amount>> :
                     j \in DOMAIN result.cost_by_region[i].services} :
                i \in DOMAIN result.cost_by_region}

\* C27: when the billing export table is not found, get_gcp_cost_breakdown
\* hands back the fixed mock report (Compute Engine 102.5, Cloud Storage
\* 21.8, total 124.3 USD) with an empty error; a report carries a note
\* exactly when its figures are the mock ones; every other exception gives
\* an empty report and a non-empty error.
C27_MockReportOnNotFound ==
    (reqOp = "get_gcp_cost" /\ rpc = "returned") =>
        /\ ("note" \in DOMAIN reqOut) = (window.resolved /\ provider.query = "not_found")
        /\ (window.resolved /\ provider.query = "not_found") =>
               /\ reqOut.error = ""
               /\ reqOut.total_cost = 124300
               /\ reqOut.currency = "USD"
               /\ ReportFigures(reqOut) =
                      {<<"Compute Engine", 102500>>, <<"Cloud Storage", 21800>>}
               /\ ("cost_by_region" \in DOMAIN reqOut) = reqArgs.region_wise
        /\ (~window.resolved \/ provider.query = "fails") =>
               /\ DOMAIN reqOut = {"kind", "error"}
               /\ reqOut.error # ""

\* The mock report, region-wise, for a window given by explicit dates.
C27_Witness ==
    /\ reqOp = "get_gcp_cost" /\ rpc = "returned"
    /\ provider.query = "not_found"
    /\ reqArgs.region_wise
    /\ reqArgs.start_date_iso = "2024-02-28" /\ reqArgs.end_date_iso = "2024-03-01"
    /\ "note" \in DOMAIN reqOut

Supplied(arg) == arg # None /\ arg # ""

\* C28: the explicit dates are used exactly when both are supplied; with one
\* or none the window is the one time_range_days alone gives, and a
\* time_range_days of 0 gives what no time_range_days gives.
C28_ExplicitBranchNeedsBothDates ==
    (TakesDates /\ provider.session = "ok" /\ ReqEnded) =>
        LET both == Supplied(reqArgs.start_date_iso) /\ Supplied(reqArgs.end_date_iso)
            undated == [reqArgs EXCEPT !.start_date_iso = None, !.end_date_iso = None]
            unbounded == [undated EXCEPT !.time_range_days = <<>>]
        IN  /\ (both /\ window.resolved) =>
                   /\ window.start = Strptime(reqArgs.start_date_iso).date
                   /\ window.end = Strptime(reqArgs.end_date_iso).date
            /\ ~both =>
                   /\ window.resolved
                   /\ window.start = Resolve(undated, today).start
                   /\ window.end = Resolve(undated, today).end
            /\ (~both /\ reqArgs.time_range_days = <<0>>) =>
                   /\ window.start = Resolve(unbounded, today).start
                   /\ window.start = Date(today.month, 1)
                   /\ window.end = today

\* Only the end date supplied, next to a time_range_days that reaches into
\* the month before; and only a start date next to a time_range_days of 0.
C28_Witness ==
    /\ TakesDates /\ rpc = "returned" /\ reqOut.kind = "result"
    /\ \/ /\ reqArgs.start_date_iso = "" /\ reqArgs.end_date_iso = "2024-02-28"
          /\ reqArgs.time_range_days = <<MaxDays>>
          /\ window.start.month # today.month
       \/ /\ reqArgs.start_date_iso = "2024-02-28" /\ reqArgs.end_date_iso = None
          /\ reqArgs.time_range_days = <<0>>
          /\ today.day # 1

(***************************************************************************)
(* cost_filters of clouds/aws/utils.py.  A string is the sequence of its   *)
(* characters; a dict with the keys "Key" and "Values" is a record; the    *)
(* empty dict is the empty function <<>>.                                  *)
(***************************************************************************)
MaxTags == 2

\* "k=v", "t=x", "a=b=c", "no", "=", "k=" and the empty string.
FilterStrings ==
    {<<"k", "=", "v">>, <<"t", "=", "x">>, <<"a", "=", "b", "=", "c">>,
     <<"n", "o">>, <<"=">>, <<"k", "=">>, <<>>}

\* "=" in text
HasEquals(text) == \E i \in 1..Len(text) : text[i] = "="

\* text.rsplit("=", 1): split at the last "=".
SplitLast(text) ==
    LET i == CHOOSE j \in 1..Len(text) :
                 text[j] = "=" /\ \A k \in (j + 1)..Len(text) : text[k] # "="
    IN  [Key |-> SubSeq(text, 1, i - 1), Values |-> <<SubSeq(text, i + 1, Len(text))>>]

\* key, value = text.split("=", 1), as {"Key": key, "Values": [value]}.
SplitFirst(text) ==
    LET i == CHOOSE j \in 1..Len(text) :
                 text[j] = "=" /\ \A k \in 1..(j - 1) : text[k] # "="
    IN  [Key |-> SubSeq(text, 1, i - 1), Values |-> <<SubSeq(text, i + 1, Len(text))>>]

RECURSIVE FiltersList(_)
\* tag_filters_list / dimension_filters_list after the loop over the strings.
FiltersList(texts) ==
    IF texts = <<>> THEN <<>>
    ELSE LET rest == FiltersList(SubSeq(texts, 1, Len(texts) - 1))
             text == texts[Len(texts)]
         IN  IF HasEquals(text) THEN Append(rest, SplitFirst(text)) ELSE rest

\* {"Tags": f} and {"Dimensions": f}
Leaf(kind, f) == [node |-> kind, filter |-> f]

\* {"And": children}
AndOf(children) == [node |-> "And", children |-> children]

\* What a category appends to filters, with a single leaf wrapped as well.
CategoryFiltersAlwaysAnd(kind, list) ==
    IF list = <<>> THEN <<>>
    ELSE <<AndOf([i \in 1..Len(list) |-> Leaf(kind, list[i])])>>

\* What a category appends to filters: nothing, its leaf, or an And of its leaves.
CategoryFilters(kind, list) ==
    IF list = <<>> THEN <<>>
    ELSE IF Len(list) = 1 THEN <<Leaf(kind, list[1])>>
    ELSE <<AndOf([i \in 1..Len(list) |-> Leaf(kind, list[i])])>>

\* The kwargs with the dimension category ahead of the tag category.
KwargsDimensionsFirst(filters) ==
    IF Len(filters) = 1 THEN [Filter |-> filters[1]]
    ELSE IF Len(filters) > 1 THEN [Filter |-> AndOf(<<filters[2], filters[1]>>)]
    ELSE <<>>

\* cost_explorer_kwargs for the collected filters.
Kwargs(filters) ==
    IF Len(filters) = 1 THEN [Filter |-> filters[1]]
    ELSE IF Len(filters) > 1 THEN [Filter |-> AndOf(filters)]
    ELSE <<>>

\* cost_filters(tags, dimensions)
CostFiltersResult(ts, ds) ==
    Kwargs(CategoryFilters("Tags", FiltersList(ts))
               \o CategoryFilters("Dimensions", FiltersList(ds)))

FilterInit ==
    /\ tags \in SeqsUpTo(FilterStrings, MaxTags)
    /\ dimensions \in SeqsUpTo(FilterStrings, MaxTags)
    /\ cost_explorer_kwargs = "pending"
    /\ kpc = "call"
    /\ FanIdle /\ ToolIdle /\ CostIdle /\ ReqIdle /\ AuditIdle /\ PagesIdle /\ CliIdle

CostFilters ==
    /\ kpc = "call"
    /\ cost_explorer_kwargs' = CostFiltersResult(tags, dimensions)
    /\ kpc' = "done"
    /\ UNCHANGED <<tags, dimensions>>
    /\ UNCHANGED <<fanVars, toolVars, costVars, reqVars, auditVars, pageVars, cliVars>>

FilterNext == CostFilters

SpecFilter == FilterInit /\ [][FilterNext]_vars

(***************************************************************************)
(* Properties of cost_filters.                                             *)
(***************************************************************************)
FilterDone == kpc = "done"

\* The strings of a list that contain "=", in input order.
ValidStrings(texts) == SelectSeq(texts, HasEquals)

\* The leaves the valid strings of a category stand for, in input order.
LeavesOf(kind, texts) ==
    LET valid == ValidStrings(texts)
    IN  [i \in 1..Len(valid) |-> Leaf(kind, SplitFirst(valid[i]))]

\* A category's result: its bare leaf, or an And of its leaves.
CategoryResult(kind, texts) ==
    LET leaves == LeavesOf(kind, texts)
    IN  IF Len(leaves) = 1 THEN leaves[1] ELSE AndOf(leaves)

HasFilter == DOMAIN cost_explorer_kwargs = {"Filter"}

NoFilter == DOMAIN cost_explorer_kwargs = {}

\* C16: no tags and no dimensions give no Filter entry; one valid tag gives
\* its leaf unwrapped; two or more give an And of exactly their leaves in
\* input order; likewise for dimensions.
C16_FilterPerCategoryShape ==
    FilterDone =>
        /\ (tags = <<>> /\ dimensions = <<>>) => NoFilter
        /\ ValidStrings(dimensions) = <<>> =>
               /\ Len(ValidStrings(tags)) = 1 =>
                      (HasFilter /\ cost_explorer_kwargs.Filter = LeavesOf("Tags", tags)[1])
               /\ Len(ValidStrings(tags)) >= 2 =>
                      (HasFilter /\ cost_explorer_kwargs.Filter = AndOf(LeavesOf("Tags", tags)))
        /\ ValidStrings(tags) = <<>> =>
               /\ Len(ValidStrings(dimensions)) = 1 =>
                      (/\ HasFilter
                       /\ cost_explorer_kwargs.Filter = LeavesOf("Dimensions", dimensions)[1])
               /\ Len(ValidStrings(dimensions)) >= 2 =>
                      (/\ HasFilter
                       /\ cost_explorer_kwargs.Filter
                              = AndOf(LeavesOf("Dimensions", dimensions)))

\* Two valid tags beside a dimension string without "=".
C16_Witness ==
    /\ FilterDone
    /\ Len(ValidStrings(tags)) = 2 /\ tags[1] # tags[2]
    /\ dimensions # <<>> /\ ValidStrings(dimensions) = <<>>
    /\ HasFilter /\ cost_explorer_kwargs.Filter.node = "And"

\* C17: with a valid tag and a valid dimension the filter is an And of
\* exactly the tag category's result and the dimension category's result, in
\* that order; with one category only, that category's result unwrapped.
C17_CategoriesCombined ==
    FilterDone =>
        LET nt == Len(ValidStrings(tags))
            nd == Len(ValidStrings(dimensions))
        IN  /\ (nt >= 1 /\ nd >= 1) =>
                   /\ HasFilter
                   /\ cost_explorer_kwargs.Filter.node = "And"
                   /\ cost_explorer_kwargs.Filter.children =
                          <<CategoryResult("Tags", tags),
                            CategoryResult("Dimensions", dimensions)>>
            /\ (nt >= 1 /\ nd = 0) =>
                   (HasFilter /\ cost_explorer_kwargs.Filter = CategoryResult("Tags", tags))
            /\ (nt = 0 /\ nd >= 1) =>
                   (/\ HasFilter
                    /\ cost_explorer_kwargs.Filter = CategoryResult("Dimensions", dimensions))

\* Two valid tags and one valid dimension.
C17_Witness ==
    /\ FilterDone
    /\ Len(ValidStrings(tags)) = 2
    /\ Len(ValidStrings(dimensions)) = 1
    /\ HasFilter
    /\ cost_explorer_kwargs.Filter.children[1].node = "And"
    /\ cost_explorer_kwargs.Filter.children[2].node = "Dimensions"

RECURSIVE FilterLeaves(_)
\* The leaves of a filter expression, left to right.
FilterLeaves(f) ==
    IF f.node = "And"
    THEN Flatten([i \in 1..Len(f.children) |-> FilterLeaves(f.children[i])])
    ELSE <<f>>

\* All leaves of the returned kwargs.
ReturnedLeaves == IF HasFilter THEN FilterLeaves(cost_explorer_kwargs.Filter) ELSE <<>>

\* C18: every string with "=" becomes one leaf whose key is the text before
\* its first "=" and whose value is all the text after it; strings without
\* "=" are dropped; when all are dropped there is no filter.
C18_SplitOnFirstEqualsDropOthers ==
    FilterDone =>
        LET valid == ValidStrings(tags) \o ValidStrings(dimensions)
        IN  /\ Len(ReturnedLeaves) = Len(valid)
            /\ valid = <<>> => NoFilter
            /\ \A i \in 1..Len(ReturnedLeaves) :
                   LET leaf == ReturnedLeaves[i].filter
                   IN  /\ ~HasEquals(leaf.Key)
                       /\ Len(leaf.Values) = 1
                       /\ leaf.Key \o <<"=">> \o leaf.Values[1] = valid[i]
                       /\ ReturnedLeaves[i].node =
                              IF i <= Len(ValidStrings(tags)) THEN "Tags" ELSE "Dimensions"

\* A value that keeps a later "=", beside a dropped string.
C18_Witness ==
    /\ FilterDone
    /\ Len(tags) = 2 /\ Len(ValidStrings(tags)) = 1
    /\ \E i \in 1..Len(ReturnedLeaves) : HasEquals(ReturnedLeaves[i].filter.Values[1])

(***************************************************************************)
(* The audit operations run_finops_audit, run_azure_finops_audit and       *)
(* run_gcp_finops_audit.  A check is one helper call; what happens inside  *)
(* the regional AWS helpers is the subject of SpecFan.                     *)
(***************************************************************************)
AuditOps == {"run_finops_audit", "run_azure_finops_audit", "run_gcp_finops_audit"}

\* The checks of an audit in call order: the key under "audit", the key
\* under "errors", and whether the helper hands back an error list or an
\* error string.
AuditChecks(op) ==
    CASE op = "run_finops_audit" ->
            <<[audit |-> "stopped_ec2", errors |-> "ec2", list |-> TRUE],
              [audit |-> "unattached_ebs", errors |-> "ebs", list |-> TRUE],
              [audit |-> "unassociated_eips", errors |-> "eips", list |-> TRUE],
              [audit |-> "budget_status", errors |-> "budgets", list |-> FALSE]>>
      [] op = "run_azure_finops_audit" ->
            <<[audit |-> "stopped_vms", errors |-> "vm_errors", list |-> TRUE],
              [audit |-> "unattached_disks", errors |-> "disk_errors", list |-> TRUE],
              [audit |-> "budget_status", errors |-> "budget_error", list |-> FALSE]>>
      [] op = "run_gcp_finops_audit" ->
            <<[audit |-> "stopped_vms", errors |-> "vms", list |-> TRUE],
              [audit |-> "unattached_disks", errors |-> "disks", list |-> TRUE],
              [audit |-> "budget_status", errors |-> "budgets", list |-> FALSE]>>

\* What a check's provider calls can do: hand over n findings and then end,
\* fail with the provider's API error (botocore ClientError, googleapiclient
\* HttpError, azure HttpResponseError), or fail with any other exception
\* (connection failure, credential refresh).  The Azure budget is a fixed
\* placeholder.
CheckOutcomes(op, check) ==
    IF op = "run_azure_finops_audit" /\ ~check.list
    THEN {[found |-> 1, failure |-> "none"]}
    ELSE [found : 0..MaxItems, failure : {"none", "api", "other"}]

\* The exceptions a helper catches: the AWS helpers catch Exception, the GCP
\* and Azure helpers their API error only.
Catches(op, failure) == op = "run_finops_audit" \/ failure = "api"

AzureLocations == {"eastus", "westeurope"}

\* The regions an audit can be asked for: a non-empty list for AWS and
\* Azure; run_gcp_finops_audit takes none.
AuditRegions(op) ==
    CASE op = "run_finops_audit" -> SeqsUpTo(RegionNames, MaxRegions) \ {<<>>}
      [] op = "run_azure_finops_audit" -> SeqsUpTo(AzureLocations, MaxRegions) \ {<<>>}
      [] OTHER -> {<<>>}

\* Where the resources a helper finds can be.  The AWS helpers query one
\* region of the list after the other and stamp their loop variable on each
\* item; the Azure helpers list the whole subscription and copy each
\* resource's own location; GCP items carry a zone.
ResourceLocations(op, asked) ==
    CASE op = "run_finops_audit" -> {asked[i] : i \in 1..Len(asked)}
      [] op = "run_azure_finops_audit" -> AzureLocations
      [] OTHER -> {"us-central1-a"}

\* Findings i = 1..n of a check.
Findings(check, n, location) ==
    [i \in 1..n |-> [check |-> check.audit, item |-> i, location |-> location]]

\* The (findings, errors) pair a helper returns, or the exception it lets through.
CheckResult(op, check, outcome, location) ==
    IF outcome.failure = "none"
    THEN [raised |-> FALSE, findings |-> Findings(check, outcome.found, location),
          errors |-> IF check.list THEN <<>> ELSE ""]
    ELSE IF Catches(op, outcome.failure)
    THEN [raised |-> FALSE,
          findings |-> IF check.list
                       THEN Findings(check, outcome.found, location) ELSE <<>>,
          errors |-> IF check.list THEN <<outcome.failure>> ELSE outcome.failure]
    ELSE [raised |-> TRUE, exception |-> outcome.failure]

AuditInit ==
    /\ auditOp \in AuditOps
    /\ auditRegions \in AuditRegions(auditOp)
    /\ \E session_ok \in BOOLEAN :
       \E location \in ResourceLocations(auditOp, auditRegions) :
       \E outcomes \in [1..Len(AuditChecks(auditOp)) ->
                            [found : 0..MaxItems, failure : {"none", "api", "other"}]] :
           /\ \A i \in 1..Len(AuditChecks(auditOp)) :
                  outcomes[i] \in CheckOutcomes(auditOp, AuditChecks(auditOp)[i])
           /\ checkOutcomes = [session |-> session_ok, checks |-> outcomes,
                               location |-> location]
    /\ auditChecks = <<>>
    /\ auditReport = "pending"
    /\ apc = "acquire"
    /\ FanIdle /\ ToolIdle /\ CostIdle /\ ReqIdle /\ FilterIdle /\ PagesIdle /\ CliIdle

\* get_boto3_session followed by session.client("sts"), get_azure_credentials,
\* get_gcp_credentials: a failure leaves the operation as an exception.
AuditAcquire ==
    /\ apc = "acquire"
    /\ apc' = IF checkOutcomes.session THEN "checks" ELSE "raised"
    /\ UNCHANGED <<auditOp, auditRegions, checkOutcomes, auditChecks, auditReport>>
    /\ UNCHANGED <<fanVars, toolVars, costVars, reqVars, filterVars, pageVars, cliVars>>

\* The next helper call returns its pair.
CheckReturns ==
    /\ apc = "checks"
    /\ Len(auditChecks) < Len(AuditChecks(auditOp))
    /\ LET i == Len(auditChecks) + 1
           r == CheckResult(auditOp, AuditChecks(auditOp)[i], checkOutcomes.checks[i],
                            checkOutcomes.location)
       IN  /\ ~r.raised
           /\ auditChecks' = Append(auditChecks, [findings |-> r.findings, errors |-> r.errors])
    /\ UNCHANGED <<auditOp, auditRegions, checkOutcomes, auditReport, apc>>
    /\ UNCHANGED <<fanVars, toolVars, costVars, reqVars, filterVars, pageVars, cliVars>>

\* The next helper call lets an exception through, which leaves the audit.
CheckRaises ==
    /\ apc = "checks"
    /\ Len(auditChecks) < Len(AuditChecks(auditOp))
    /\ LET i == Len(auditChecks) + 1
           r == CheckResult(auditOp, AuditChecks(auditOp)[i], checkOutcomes.checks[i],
                            checkOutcomes.location)
       IN  r.raised
    /\ apc' = "raised"
    /\ UNCHANGED <<auditOp, auditRegions, checkOutcomes, auditChecks, auditReport>>
    /\ UNCHANGED <<fanVars, toolVars, costVars, reqVars, filterVars, pageVars, cliVars>>

\* The returned mapping: every pair under its own two keys.
AuditReturn ==
    /\ apc = "checks"
    /\ Len(auditChecks) = Len(AuditChecks(auditOp))
    /\ LET checks == AuditChecks(auditOp)
           At(key, field) == CHOOSE i \in 1..Len(checks) : checks[i][field] = key
       IN  auditReport' =
               [audit |-> [key \in {checks[i].audit : i \in 1..Len(checks)} |->
                              auditChecks[At(key, "audit")].findings],
                errors |-> [key \in {checks[i].errors : i \in 1..Len(checks)} |->
                               auditChecks[At(key, "errors")].errors]]
    /\ apc' = "returned"
    /\ UNCHANGED <<auditOp, auditRegions, checkOutcomes, auditChecks>>
    /\ UNCHANGED <<fanVars, toolVars, costVars, reqVars, filterVars, pageVars, cliVars>>

AuditNext == AuditAcquire \/ CheckReturns \/ CheckRaises \/ AuditReturn

SpecAudit == AuditInit /\ [][AuditNext]_vars

AuditEnded == apc \in {"returned", "raised"}

\* C19: with its session in hand, an audit always returns the fixed shape,
\* every category key present under audit and under errors, and what is
\* reported under a check's keys is what that check alone produced.
C19_AuditShapeAndIsolation ==
    (checkOutcomes.session /\ AuditEnded) =>
        LET checks == AuditChecks(auditOp)
        IN  /\ apc = "returned"
            /\ DOMAIN auditReport = {"audit", "errors"}
            /\ DOMAIN auditReport.audit = {checks[i].audit : i \in 1..Len(checks)}
            /\ DOMAIN auditReport.errors = {checks[i].errors : i \in 1..Len(checks)}
            /\ \A i \in 1..Len(checks) :
                   /\ \A j \in 1..Len(auditReport.audit[checks[i].audit]) :
                          auditReport.audit[checks[i].audit][j].check = checks[i].audit
                   /\ Len(auditReport.audit[checks[i].audit])
                          \in {0, checkOutcomes.checks[i].found}
                   /\ (auditReport.errors[checks[i].errors] \in {<<>>, ""})
                          <=> checkOutcomes.checks[i].failure = "none"

\* C23: an audit run over a list of regions reports only findings of those
\* regions: every item under stopped_ec2, unattached_ebs, unassociated_eips
\* of run_finops_audit and under stopped_vms, unattached_disks of
\* run_azure_finops_audit lies in a region of the regions argument.
C23_FindingsWithinRegions ==
    (auditOp \in {"run_finops_audit", "run_azure_finops_audit"} /\ apc = "returned") =>
        \A key \in DOMAIN auditReport.audit \ {"budget_status"} :
            \A j \in 1..Len(auditReport.audit[key]) :
                \E i \in 1..Len(auditRegions) :
                    auditReport.audit[key][j].location = auditRegions[i]

(***************************************************************************)
(* The paged GCP helpers get_stopped_vms and get_unattached_disks: one     *)
(* aggregatedList request per page, the next one built from the previous   *)
(* response, None after the last page.                                     *)
(***************************************************************************)
MaxPages == 3

PagedHelpers == {"get_stopped_vms", "get_unattached_disks"}

\* What the provider does on request.execute() of a page: hand over a page
\* with `found` resources that match (TERMINATED instances, disks without
\* users), or raise googleapiclient HttpError, or raise something else.
PageOutcomes == [found : 0..MaxItems, raises : {"none", "http", "other"}]

\* The items one page adds to results.
PageItems(h, p, outcome) ==
    [i \in 1..outcome.found |-> [helper |-> h, page |-> p, id |-> i]]

\* aggregatedList_next: the request for the following page, None after the last.
NextRequest(p) == IF p < Len(pages) THEN p + 1 ELSE 0

\* The state after `request = compute....aggregatedList(project=project_id)`.
PagesInit ==
    /\ pageHelper \in PagedHelpers
    /\ pages \in SeqsUpTo(PageOutcomes, MaxPages) \ {<<>>}
    /\ request = 1
    /\ fetched = <<>>
    /\ pageResults = <<>>
    /\ pageErrors = <<>>
    /\ ppc = "loop"
    /\ FanIdle /\ ToolIdle /\ CostIdle /\ ReqIdle /\ FilterIdle /\ AuditIdle /\ CliIdle

\* One pass of `while request is not None` that completes.
PageExecutes ==
    /\ ppc = "loop"
    /\ request # 0
    /\ pages[request].raises = "none"
    /\ fetched' = Append(fetched, request)
    /\ pageResults' = pageResults \o PageItems(pageHelper, request, pages[request])
    /\ request' = NextRequest(request)
    /\ UNCHANGED <<pageHelper, pages, pageErrors, ppc>>
    /\ UNCHANGED <<fanVars, toolVars, costVars, reqVars, filterVars, auditVars, cliVars>>

PageHttpErrorSkipsPage ==
    /\ ppc = "loop"
    /\ request # 0
    /\ pages[request].raises = "http"
    /\ fetched' = Append(fetched, request)
    /\ pageErrors' = Append(pageErrors, <<"HttpError", request>>)
    /\ request' = NextRequest(request)
    /\ UNCHANGED <<pageHelper, pages, pageResults, ppc>>
    /\ UNCHANGED <<fanVars, toolVars, costVars, reqVars, filterVars, auditVars, cliVars>>

\* request.execute() raises HttpError: `except HttpError as e` outside the
\* loop appends str(e), and the helper returns.
PageHttpError ==
    /\ ppc = "loop"
    /\ request # 0
    /\ pages[request].raises = "http"
    /\ fetched' = Append(fetched, request)
    /\ pageErrors' = Append(pageErrors, <<"HttpError", request>>)
    /\ ppc' = "returned"
    /\ UNCHANGED <<pageHelper, pages, request, pageResults>>
    /\ UNCHANGED <<fanVars, toolVars, costVars, reqVars, filterVars, auditVars, cliVars>>

\* request.execute() raises anything else: the exception leaves the helper.
PageRaises ==
    /\ ppc = "loop"
    /\ request # 0
    /\ pages[request].raises = "other"
    /\ fetched' = Append(fetched, request)
    /\ ppc' = "raised"
    /\ UNCHANGED <<pageHelper, pages, request, pageResults, pageErrors>>
    /\ UNCHANGED <<fanVars, toolVars, costVars, reqVars, filterVars, auditVars, cliVars>>

\* request is None: `return results, errors`.
PagesReturn ==
    /\ ppc = "loop"
    /\ request = 0
    /\ ppc' = "returned"
    /\ UNCHANGED <<pageHelper, pages, request, fetched, pageResults, pageErrors>>
    /\ UNCHANGED <<fanVars, toolVars, costVars, reqVars, filterVars, auditVars, cliVars>>

PagesNext == PageExecutes \/ PageHttpError \/ PageRaises \/ PagesReturn

SpecPages == PagesInit /\ [][PagesNext]_vars

\* The first page whose request fails, 0 when none does.
FirstFailingPage ==
    IF \A p \in 1..Len(pages) : pages[p].raises = "none" THEN 0
    ELSE CHOOSE p \in 1..Len(pages) :
             /\ pages[p].raises # "none"
             /\ \A q \in 1..(p - 1) : pages[q].raises = "none"

\* The findings of pages 1..n, in page order.
FindingsThrough(n) ==
    Flatten([p \in 1..n |-> PageItems(pageHelper, p, pages[p])])

\* C29: the pages are requested in order, each once, until the next-page
\* request is None; an HttpError on a page ends the run with no later page
\* requested, the findings of the earlier pages kept and exactly one error
\* entry.
C29_PagesInOrderUntilHttpError ==
    /\ fetched = [i \in 1..Len(fetched) |-> i]
    /\ pageResults =
           FindingsThrough(IF ppc = "loop" \/ FirstFailingPage = 0
                           THEN Len(fetched) ELSE Len(fetched) - 1)
    /\ (ppc = "returned" /\ FirstFailingPage = 0) =>
           /\ Len(fetched) = Len(pages)
           /\ pageErrors = <<>>
    /\ (ppc = "returned" /\ FirstFailingPage # 0) =>
           /\ pages[FirstFailingPage].raises = "http"
           /\ Len(fetched) = FirstFailingPage
           /\ pageResults = FindingsThrough(FirstFailingPage - 1)
           /\ Len(pageErrors) = 1

\* An HttpError on the second of three pages after a first page with
\* findings: results and errors are both non-empty.
C29_Witness ==
    /\ ppc = "returned"
    /\ Len(pages) = 3
    /\ Len(fetched) = 2
    /\ FirstFailingPage = 2
    /\ pageResults # <<>>
    /\ pageErrors # <<>>

(***************************************************************************)
(* The chat loop of the command line assistant: run() hands each input to  *)
(* handle_input, which works on the shared chat_state.  An input is a      *)
(* sequence of words.                                                      *)
(***************************************************************************)
MaxPrompts == 3

\* The keywords of extract_cloud_hint that occur in the lower-cased word.
KeywordsIn(word) ==
    CASE word \in {"AWS", "aws", "laws"} -> {"aws"}
      [] word \in {"profile", "Profiles"} -> {"profile"}
      [] word \in {"GCP", "gcp"} -> {"gcp"}
      [] word \in {"project", "projects"} -> {"project"}
      [] word \in {"Azure", "azure"} -> {"azure"}
      [] word \in {"subscription"} -> {"subscription"}
      [] OTHER -> {}

\* The inputs typed at the prompt.
CliInputs ==
    {<<"show", "costs">>, <<"and", "yesterday">>,
     <<"AWS", "costs">>, <<"costs", "Profiles">>, <<"laws">>,
     <<"gcp", "costs">>, <<"list", "projects">>,
     <<"Azure", "costs">>, <<"subscription">>,
     <<"project", "AWS">>, <<"azure", "GCP">>, <<"subscription", "profile">>}

extract_cloud_hint_gcp_first(user_input) ==
    LET Has(keyword) ==
            \E i \in DOMAIN user_input : keyword \in KeywordsIn(user_input[i])
    IN  IF Has("gcp") \/ Has("project") THEN "gcp"
        ELSE IF Has("aws") \/ Has("profile") THEN "aws"
        ELSE IF Has("azure") \/ Has("subscription") THEN "azure"
        ELSE ""

extract_cloud_hint(user_input) ==
    LET Has(keyword) ==
            \E i \in DOMAIN user_input : keyword \in KeywordsIn(user_input[i])
    IN  IF Has("aws") \/ Has("profile") THEN "aws"
        ELSE IF Has("gcp") \/ Has("project") THEN "gcp"
        ELSE IF Has("azure") \/ Has("subscription") THEN "azure"
        ELSE ""

\* chat_state as the module creates it.
CliInit ==
    /\ last_cloud = ""
    /\ messages = <<>>
    /\ prompts = 0
    /\ FanIdle /\ ToolIdle /\ CostIdle /\ ReqIdle /\ FilterIdle /\ AuditIdle /\ PagesIdle

\* One call of handle_input.  The graph answers, answers nothing, or raises
\* (run() reports the exception and prompts again).
handle_input ==
    /\ prompts < MaxPrompts
    /\ \E user_input \in CliInputs, reply \in {"answer", "silent", "raises"} :
          LET hint == extract_cloud_hint(user_input)
              platform == IF hint # "" THEN hint ELSE last_cloud
              upper == CASE platform = "aws" -> "AWS"
                         [] platform = "gcp" -> "GCP"
                         [] platform = "azure" -> "AZURE"
                         [] OTHER -> ""
              cloud_hint ==
                  IF platform # ""
                  THEN <<[role |-> "system",
                          content |-> <<"The user is working with the", upper,
                                        "platform platform.">>]>>
                  ELSE <<>>
              user_msg == [role |-> "user", content |-> user_input]
              ai == IF reply = "answer"
                    THEN <<[role |-> "ai", content |-> <<"answer">>]>>
                    ELSE <<>>
          IN  /\ last_cloud' = IF platform # "" THEN platform ELSE last_cloud
              /\ messages' = Append(messages, user_msg) \o cloud_hint \o ai
    /\ prompts' = prompts + 1
    /\ UNCHANGED <<fanVars, toolVars, costVars, reqVars, filterVars, auditVars, pageVars>>

CliNext == handle_input

SpecCli == CliInit /\ [][CliNext]_vars

\* Whether a word sequence mentions one of the keywords.
Mentions(text, keywords) ==
    \E i \in DOMAIN text : KeywordsIn(text[i]) \cap keywords # {}

\* The upper-cased platform name a system hint message carries.
HintNames == [aws |-> "AWS", gcp |-> "GCP", azure |-> "AZURE"]

\* C30: the cloud context is sticky.  A call works with the hint of its own
\* input (aws or profile before gcp or project before azure or
\* subscription), otherwise with last_cloud; last_cloud changes only when
\* the input carries a hint and never goes back to empty; and a system hint
\* message follows the user message exactly when the context is non-empty.
C30_StickyCloudContext ==
    [][prompts' # prompts =>
        LET n == Len(messages)
            text == messages'[n + 1].content
            hint == IF Mentions(text, {"aws", "profile"}) THEN "aws"
                    ELSE IF Mentions(text, {"gcp", "project"}) THEN "gcp"
                    ELSE IF Mentions(text, {"azure", "subscription"}) THEN "azure"
                    ELSE ""
            context == IF hint # "" THEN hint ELSE last_cloud
            added == SubSeq(messages', n + 2, Len(messages'))
        IN  /\ SubSeq(messages', 1, n) = messages
            /\ messages'[n + 1].role = "user"
            /\ last_cloud' = context
            /\ hint = "" => last_cloud' = last_cloud
            /\ last_cloud # "" => last_cloud' # ""
            /\ IF context = ""
               THEN \A i \in DOMAIN added : added[i].role # "system"
               ELSE /\ added # <<>>
                    /\ added[1].role = "system"
                    /\ added[1].content[2] = HintNames[context]
                    /\ \A i \in DOMAIN added : i > 1 => added[i].role # "system"
    ]_vars

\* An input without any keyword that follows a GCP input: its user message
\* is followed by the GCP hint.
C30_Witness ==
    \E i \in DOMAIN messages :
        /\ i > 1 /\ i < Len(messages)
        /\ messages[i].role = "user"
        /\ ~Mentions(messages[i].content,
                     {"aws", "profile", "gcp", "project", "azure", "subscription"})
        /\ messages[i + 1].role = "system"
        /\ messages[i + 1].content[2] = "GCP"
        /\ last_cloud = "gcp"

====
